---------------------------- MODULE Spec2Model ----------------------------
(***************************************************************************)
(* A model of the csv-to-jsonld processor (fluree/csv-to-jsonld-processor): *)
(* the manifest validation and the two-phase pipeline of Processor::process, *)
(* the merge operations on vocabulary terms and on instances, the dual-form *)
(* identifier IdOpt, picklist validation and pivot expansion of the instance *)
(* builder.                                                                 *)
(*                                                                          *)
(* Strings that the code only compares are TLA+ strings; strings that the   *)
(* code builds (IRIs) are sequences of string pieces, so that concatenation *)
(* is \o and two results are equal exactly when the built texts are equal.  *)
(***************************************************************************)
EXTENDS Naturals, Sequences, FiniteSets, TLC

VARIABLES
    \* ---- Processor / Manifest (processor/mod.rs, manifest/mod.rs)
    pc,                 \* position of the run: "start", "model", "instances", "done", "aborted", or a harness tag
    is_strict,          \* --strict
    loaded,             \* the manifest as deserialized: [model, instances], each a sequence of steps
    manifest,           \* the manifest the processor holds (validate rewrites its sequences)
    queue,              \* the steps the current phase loop has still to take
    ran,                \* the steps handed to process_model_step / process_instance_step so far, in order
    did_reorder_instance_sequence,
    processing_state,   \* [warnings, errors]: ordered lists of messages
    \* ---- IdOpt (types/vocabulary.rs)
    id_a, id_b,         \* two identifiers
    id_eq,              \* what comparing and resolving them gave
    \* ---- VocabularyTerm merge (types/vocabulary.rs)
    term_self,          \* the term a vocabulary map holds
    term_other,         \* the term built from a later row with the same key
    term_out,           \* the outcome of each update_with call made so far
    \* ---- InstanceProcessor (instance/types.rs, instance/processor_impl.rs)
    is_namespace_iris,  \* manifest.instances.namespace_iris
    instances,          \* the Instance Table: id -> JsonLdInstance
    rows,               \* number of rows taken so far
    last,               \* the last row's effect: [kind, id, before, incoming, after, messages]
    manifest_base_iri,  \* manifest.instances.base_iri
    model_base_iri,     \* the base IRI of the vocabulary
    vocabulary,         \* VocabularyMap.classes: class id -> [one_of]
    \* ---- ProcessingOutcome (error/mod.rs, csv-to-jsonld-cli main.rs)
    processed_state,    \* the ProcessingState the processor ends with
    proto_outcome,      \* the outcome of loading and validating the manifest
    processing_outcome, \* the outcome Processor::process returns
    final_outcome       \* the outcome that is reported

pipeVars == <<pc, is_strict, loaded, manifest, queue, ran,
              did_reorder_instance_sequence, processing_state>>

idoptVars == <<id_a, id_b, id_eq>>

termVars == <<term_self, term_other, term_out>>

instVars == <<is_namespace_iris, instances, rows, last>>

vocabVars == <<manifest_base_iri, model_base_iri, vocabulary>>

outcomeVars == <<processed_state, proto_outcome, processing_outcome, final_outcome>>

vars == <<pipeVars, idoptVars, termVars, instVars, vocabVars, outcomeVars>>

\* the value of the variables a specification does not use
Idle == "idle"

IdOptIdle == id_a = Idle /\ id_b = Idle /\ id_eq = Idle

PipeIdle ==
    /\ loaded = Idle /\ manifest = Idle /\ queue = Idle /\ ran = Idle
    /\ did_reorder_instance_sequence = Idle

TermIdle == term_self = Idle /\ term_other = Idle /\ term_out = Idle

InstIdle == is_namespace_iris = Idle /\ instances = Idle /\ rows = Idle /\ last = Idle

VocabIdle == manifest_base_iri = Idle /\ model_base_iri = Idle /\ vocabulary = Idle

OutcomeIdle ==
    /\ processed_state = Idle /\ proto_outcome = Idle /\ processing_outcome = Idle
    /\ final_outcome = Idle

IdleOutsidePipe == IdOptIdle /\ TermIdle /\ InstIdle /\ VocabIdle /\ OutcomeIdle
IdleOutsideIdOpt == PipeIdle /\ TermIdle /\ InstIdle /\ VocabIdle /\ OutcomeIdle
IdleOutsideTerm == PipeIdle /\ IdOptIdle /\ InstIdle /\ VocabIdle /\ OutcomeIdle
IdleOutsideTable == PipeIdle /\ IdOptIdle /\ TermIdle /\ VocabIdle /\ OutcomeIdle
IdleOutsidePicklist == PipeIdle /\ IdOptIdle /\ TermIdle /\ OutcomeIdle
IdleOutsidePivot == PipeIdle /\ IdOptIdle /\ TermIdle /\ VocabIdle /\ OutcomeIdle
IdleOutsideOutcome == PipeIdle /\ IdOptIdle /\ TermIdle /\ InstIdle /\ VocabIdle

\* the variables outside each group
runOnlyVars == <<loaded, manifest, queue, ran, did_reorder_instance_sequence>>
outsidePipe == <<idoptVars, termVars, instVars, vocabVars, outcomeVars>>
outsideIdOpt == <<is_strict, processing_state, runOnlyVars, termVars, instVars, vocabVars, outcomeVars>>
outsideTerm == <<is_strict, processing_state, runOnlyVars, idoptVars, instVars, vocabVars, outcomeVars>>
outsideTable == <<runOnlyVars, idoptVars, termVars, vocabVars, outcomeVars>>
outsidePicklist == <<runOnlyVars, idoptVars, termVars, outcomeVars>>
outsidePivot == <<runOnlyVars, idoptVars, termVars, vocabVars, outcomeVars>>
outsideOutcome == <<is_strict, runOnlyVars, idoptVars, termVars, instVars, vocabVars>>

-----------------------------------------------------------------------------
(* Bounds of the model. *)

MaxModelSteps == 2

MaxInstanceSteps == 3

MaxRows == 3

MaxPivotRows == 2

-----------------------------------------------------------------------------
(* Generic helpers. *)

SeqsUpTo(S, n) == UNION {[1..k -> S] : k \in 0..n}

Range(s) == {s[i] : i \in DOMAIN s}

IsPrefix(s, t) == Len(s) <= Len(t) /\ SubSeq(t, 1, Len(s)) = s

\* ProcessingState::new
NewState == [warnings |-> <<>>, errors |-> <<>>]

\* ProcessingState::add_warning / add_warning_from
AddWarning(state, m) == [state EXCEPT !.warnings = Append(@, m)]

\* ProcessingState::add_error / add_error_from
AddError(state, m) == [state EXCEPT !.errors = Append(@, m)]

\* ProcessingState::merge
MergeState(state, other) ==
    [warnings |-> state.warnings \o other.warnings,
     errors   |-> state.errors \o other.errors]

\* ProcessingState::is_ok
StateIsOk(state) == state.errors = <<>>

\* a plausible slip: an issue is an error in either mode
report_as_error(state, strict, m) == AddError(state, m)

\* the strict/lenient idiom: add_error_from in strict mode, add_warning_from otherwise
Report(state, strict, m) == IF strict THEN AddError(state, m) ELSE AddWarning(state, m)

-----------------------------------------------------------------------------
(* Manifest: steps and their deduplication. *)

Paths == {"a.csv", "b.csv", "c.csv"}

\* the model section of the manifests explored names two of the files
ModelPaths == {"a.csv", "b.csv"}

ModelStepTags == {"BasicVocabularyStep"}

InstanceStepTags ==
    {"BasicInstanceStep", "PicklistStep", "SubClassInstanceStep", "PropertiesInstanceStep"}

\* ImportStep: its source path and its @type list; ix is the step's position in the
\* manifest as loaded (the identity of the step, used to tell equal-looking steps apart).
MkSteps(raw) == [i \in DOMAIN raw |-> [path |-> raw[i][1], types |-> <<raw[i][2]>>, ix |-> i]]

LoadedModelSequences == {MkSteps(r) : r \in SeqsUpTo(ModelPaths \X ModelStepTags, MaxModelSteps)}

LoadedInstanceSequences ==
    {MkSteps(r) : r \in SeqsUpTo(Paths \X InstanceStepTags, MaxInstanceSteps)}

\* ImportSection::deduplicate_steps, the filter_map over the sequence: `seen` is
\* seen_step_paths; the result is [unique, duplicates].
RECURSIVE DedupFrom(_, _, _, _)
DedupFrom(sequence, i, seen, acc) ==
    IF i > Len(sequence) THEN acc
    ELSE LET step == sequence[i] IN
         IF step.path \in seen
         THEN DedupFrom(sequence, i + 1, seen,
                        [acc EXCEPT !.duplicates = Append(@, step)])
         ELSE DedupFrom(sequence, i + 1, seen \cup {step.path},
                        [acc EXCEPT !.unique = Append(@, step)])

\* a plausible slip: the later step of a path replaces the earlier one
RECURSIVE DedupKeepLast(_, _, _)
DedupKeepLast(sequence, i, acc) ==
    IF i > Len(sequence) THEN acc
    ELSE LET step == sequence[i]
             later == \E j \in (i + 1)..Len(sequence) : sequence[j].path = step.path
         IN IF later
            THEN DedupKeepLast(sequence, i + 1, [acc EXCEPT !.duplicates = Append(@, step)])
            ELSE DedupKeepLast(sequence, i + 1, [acc EXCEPT !.unique = Append(@, step)])

deduplicate_steps_keep_last(sequence) ==
    DedupKeepLast(sequence, 1, [unique |-> <<>>, duplicates |-> <<>>])

deduplicate_steps(sequence) ==
    DedupFrom(sequence, 1, {}, [unique |-> <<>>, duplicates |-> <<>>])

PathsOf(steps) == [i \in DOMAIN steps |-> steps[i].path]

\* handle_step_deduplication: the section's sequence after deduplication and the
\* ProcessingState holding the one diagnostic that lists the dropped steps' paths.
handle_step_deduplication(sequence, section_type, strict) ==
    LET d == deduplicate_steps(sequence) IN
    [sequence |-> d.unique,
     state    |-> IF d.duplicates # <<>>
                  THEN Report(NewState, strict,
                              [kind |-> "DuplicateSteps", section |-> section_type,
                               paths |-> PathsOf(d.duplicates)])
                  ELSE NewState]

-----------------------------------------------------------------------------
(* Processor::process: the ordering of the instance sequence. *)

\* step.types.iter().any(|t| matches!(t, StepType::InstanceStep(InstanceStep::PicklistStep)))
IsPicklistStep(step) == \E i \in DOMAIN step.types : step.types[i] = "PicklistStep"

\* a plausible slip: the two orderings exchanged
ComparePicklistLast(a, b) ==
    IF IsPicklistStep(a) /\ ~IsPicklistStep(b) THEN [ord |-> "Greater", mark |-> TRUE]
    ELSE IF ~IsPicklistStep(a) /\ IsPicklistStep(b) THEN [ord |-> "Less", mark |-> TRUE]
    ELSE [ord |-> "Equal", mark |-> FALSE]

\* the closure given to sort_by: the ordering it returns and whether the call sets
\* did_reorder_instance_sequence
ComparePicklistFirst(a, b) ==
    IF IsPicklistStep(a) /\ ~IsPicklistStep(b) THEN [ord |-> "Less", mark |-> TRUE]
    ELSE IF ~IsPicklistStep(a) /\ IsPicklistStep(b) THEN [ord |-> "Greater", mark |-> TRUE]
    ELSE [ord |-> "Equal", mark |-> FALSE]

\* slice::sort_by on a slice of at most 20 elements is a stable insertion sort:
\* element i is compared with its left neighbour and shifted left while the closure
\* says Less.  acc is [seq, mark]: the slice so far and whether any call of the
\* closure has set the flag.
RECURSIVE InsertTail(_, _, _)
InsertTail(acc, k, x) ==
    IF k = 0 THEN [seq |-> <<x>> \o acc.seq, mark |-> acc.mark]
    ELSE LET c == ComparePicklistFirst(x, acc.seq[k]) IN
         IF c.ord = "Less"
         THEN InsertTail([acc EXCEPT !.mark = @ \/ c.mark], k - 1, x)
         ELSE [seq  |-> SubSeq(acc.seq, 1, k) \o <<x>> \o SubSeq(acc.seq, k + 1, Len(acc.seq)),
               mark |-> acc.mark \/ c.mark]

RECURSIVE SortFrom(_, _, _)
SortFrom(sequence, i, acc) ==
    IF i > Len(sequence) THEN acc
    ELSE SortFrom(sequence, i + 1, InsertTail(acc, Len(acc.seq), sequence[i]))

\* instance_sequence.sort_by(...): the sorted sequence and the final value of
\* did_reorder_instance_sequence
SortInstanceSequence(sequence) == SortFrom(sequence, 1, [seq |-> <<>>, mark |-> FALSE])

ReorderWarning ==
    [kind |-> "Reordered instance sequence to process PicklistStep(s) first"]

-----------------------------------------------------------------------------
(* The run: Manifest::validate, then Processor::process. *)

InitPipe ==
    /\ pc = "start"
    /\ is_strict \in BOOLEAN
    /\ loaded \in [model : LoadedModelSequences, instances : LoadedInstanceSequences]
    /\ manifest = loaded
    /\ queue = <<>>
    /\ ran = <<>>
    /\ did_reorder_instance_sequence = FALSE
    /\ processing_state = NewState

\* Manifest::validate as the command line runs it: both sections are deduplicated;
\* a state with an error ends the run before a processor is built, otherwise the
\* state is kept and Processor::process starts on the model sequence.
Validate ==
    /\ pc = "start"
    /\ LET m == handle_step_deduplication(manifest.model, "model", is_strict)
           i == handle_step_deduplication(manifest.instances, "instance", is_strict)
           state == MergeState(MergeState(NewState, m.state), i.state)
       IN /\ manifest' = [model |-> m.sequence, instances |-> i.sequence]
          /\ processing_state' = state
          /\ IF StateIsOk(state)
             THEN pc' = "model" /\ queue' = m.sequence
             ELSE pc' = "aborted" /\ queue' = <<>>
    /\ UNCHANGED <<is_strict, loaded, ran, did_reorder_instance_sequence>>
    /\ UNCHANGED outsidePipe

\* one turn of `for step in model_sequence.drain(..)`
ModelStep ==
    /\ pc = "model"
    /\ queue # <<>>
    /\ ran' = Append(ran, [phase |-> "model", step |-> Head(queue)])
    /\ queue' = Tail(queue)
    /\ UNCHANGED <<pc, is_strict, loaded, manifest, did_reorder_instance_sequence,
                   processing_state>>
    /\ UNCHANGED outsidePipe

\* between the phases: the instance sequence is cloned, sorted, and the warning added
SortInstances ==
    /\ pc = "model"
    /\ queue = <<>>
    /\ LET s == SortInstanceSequence(manifest.instances) IN
       /\ queue' = s.seq
       /\ did_reorder_instance_sequence' = s.mark
       /\ processing_state' =
             IF s.mark THEN AddWarning(processing_state, ReorderWarning)
             ELSE processing_state
    /\ pc' = "instances"
    /\ UNCHANGED <<is_strict, loaded, manifest, ran>>
    /\ UNCHANGED outsidePipe

\* one turn of `for step in instance_sequence`
InstanceStep ==
    /\ pc = "instances"
    /\ queue # <<>>
    /\ ran' = Append(ran, [phase |-> "instance", step |-> Head(queue)])
    /\ queue' = Tail(queue)
    /\ UNCHANGED <<pc, is_strict, loaded, manifest, did_reorder_instance_sequence,
                   processing_state>>
    /\ UNCHANGED outsidePipe

\* the end of process: the outcome is taken from the state
Finish ==
    /\ pc = "instances"
    /\ queue = <<>>
    /\ pc' = "done"
    /\ UNCHANGED <<is_strict, loaded, manifest, queue, ran, did_reorder_instance_sequence,
                   processing_state>>
    /\ UNCHANGED outsidePipe

-----------------------------------------------------------------------------
(* Claims about the pipeline, checked under Spec. *)

\* the steps of one phase that have been run, in the order they ran
RanOf(phase) ==
    LET sel == SelectSeq(ran, LAMBDA r : r.phase = phase)
    IN [i \in DOMAIN sel |-> sel[i].step]

TagsOf(steps) == [i \in DOMAIN steps |-> steps[i].types[1]]

\* the stable partition of a sequence that puts the picklist steps first
StablePartition(s) ==
    SelectSeq(s, IsPicklistStep) \o SelectSeq(s, LAMBDA x : ~IsPicklistStep(x))

\* C1: the instance steps run in the order of the stable partition of the manifest's
\* instance sequence that puts every PicklistStep first: at every moment the steps
\* run so far are a prefix of that partition (so no non-picklist step starts before
\* every picklist step has run, and each group keeps its manifest order), and at
\* the end all of it has run.
C1_PicklistFirstStableOrder ==
    /\ IsPrefix(RanOf("instance"), StablePartition(manifest.instances))
    /\ pc = "done" => RanOf("instance") = StablePartition(manifest.instances)

C1_Witness ==
    /\ pc = "done"
    /\ TagsOf(manifest.instances) =
          <<"BasicInstanceStep", "PicklistStep", "SubClassInstanceStep">>
    /\ TagsOf(RanOf("instance")) =
          <<"PicklistStep", "BasicInstanceStep", "SubClassInstanceStep">>

\* the steps of a loaded sequence that no earlier step of the sequence shares its path with
FirstOccurrences(s) ==
    SelectSeq(s, LAMBDA x : \A j \in 1..(x.ix - 1) : s[j].path # x.path)

LaterOccurrences(s) ==
    SelectSeq(s, LAMBDA x : \E j \in 1..(x.ix - 1) : s[j].path = x.path)

Diagnostics == Range(processing_state.warnings) \cup Range(processing_state.errors)

DuplicatesReported(section_type, s) ==
    LaterOccurrences(s) # <<>> =>
        [kind |-> "DuplicateSteps", section |-> section_type,
         paths |-> PathsOf(LaterOccurrences(s))] \in Diagnostics

\* C9: after validation each of the two sequences holds, for every path, only the
\* first step with that path, in manifest order; only kept steps are run (all of
\* them by the end of a run); every dropped step's path is listed in a diagnostic
\* of its section; a path used in both sections is kept in both.
C9_FirstStepOfEachPathKept ==
    pc # "start" =>
        /\ manifest.model = FirstOccurrences(loaded.model)
        /\ manifest.instances = FirstOccurrences(loaded.instances)
        /\ Range(RanOf("model")) \subseteq Range(manifest.model)
        /\ Range(RanOf("instance")) \subseteq Range(manifest.instances)
        /\ Len(RanOf("instance")) = Cardinality(Range(RanOf("instance")))
        /\ pc = "done" =>
              /\ RanOf("model") = manifest.model
              /\ Range(RanOf("instance")) = Range(manifest.instances)
        /\ DuplicatesReported("model", loaded.model)
        /\ DuplicatesReported("instance", loaded.instances)

C9_Witness ==
    /\ pc = "done"
    /\ PathsOf(loaded.model) = <<"a.csv", "a.csv">>
    /\ PathsOf(loaded.instances) = <<"a.csv", "b.csv", "a.csv">>
    /\ PathsOf(RanOf("model")) = <<"a.csv">>
    /\ Range(PathsOf(RanOf("instance"))) = {"a.csv", "b.csv"}
    /\ Len(RanOf("instance")) = 2
    /\ Len(processing_state.warnings) >= 2

\* C10 as claimed: the reorder warning is recorded exactly when the order in which
\* the instance steps run differs from their manifest order.
C10_WarningIffOrderChanged ==
    pc = "done" =>
        (ReorderWarning \in Range(processing_state.warnings)
            <=> RanOf("instance") # manifest.instances)


Init == InitPipe /\ IdleOutsidePipe

Next == Validate \/ ModelStep \/ SortInstances \/ InstanceStep \/ Finish

Spec == Init /\ [][Next]_vars

-----------------------------------------------------------------------------
(* IdOpt: the dual-form identifier. *)

IdValues == {"A", "B", "C"}

\* IdOpt::String(s)
IdString(s) == [tag |-> "String", value |-> s]

\* IdOpt::ReplacementMap { original_id, replacement_id }
ReplacementMap(o, r) == [tag |-> "ReplacementMap", original_id |-> o, replacement_id |-> r]

IdOpts ==
    {IdString(s) : s \in IdValues}
        \cup {ReplacementMap(o, r) : o \in IdValues, r \in IdValues}

\* a plausible slip: a plain identifier is matched against the replacement only
eq_replacement_only(self, other) ==
    CASE self.tag = "String" /\ other.tag = "String" -> self.value = other.value
      [] self.tag = "ReplacementMap" /\ other.tag = "ReplacementMap" ->
            self.original_id = other.original_id \/ self.replacement_id = other.replacement_id
      [] self.tag = "String" /\ other.tag = "ReplacementMap" ->
            self.value = other.replacement_id
      [] self.tag = "ReplacementMap" /\ other.tag = "String" ->
            other.value = self.replacement_id

\* impl PartialEq for IdOpt: the four arms of the match
eq(self, other) ==
    CASE self.tag = "String" /\ other.tag = "String" -> self.value = other.value
      [] self.tag = "ReplacementMap" /\ other.tag = "ReplacementMap" ->
            self.original_id = other.original_id \/ self.replacement_id = other.replacement_id
      [] self.tag = "String" /\ other.tag = "ReplacementMap" ->
            self.value = other.replacement_id \/ self.value = other.original_id
      [] self.tag = "ReplacementMap" /\ other.tag = "String" ->
            other.value = self.replacement_id \/ other.value = self.original_id

\* IdOpt::final_iri
final_iri(self) ==
    IF self.tag = "String" THEN self.value ELSE self.replacement_id

InitIdOpt ==
    /\ pc = "ids"
    /\ id_a \in IdOpts
    /\ id_b \in IdOpts
    /\ id_eq = Idle
    /\ is_strict = FALSE
    /\ processing_state = NewState
    /\ IdleOutsideIdOpt

\* a == b, b == a, a.final_iri(), b.final_iri()
CompareIds ==
    /\ pc = "ids"
    /\ id_eq' = [ab |-> eq(id_a, id_b), ba |-> eq(id_b, id_a),
                 iri_a |-> final_iri(id_a), iri_b |-> final_iri(id_b)]
    /\ pc' = "compared"
    /\ UNCHANGED <<id_a, id_b>>
    /\ UNCHANGED outsideIdOpt

NextIdOpt == CompareIds

SpecIdOpt == InitIdOpt /\ [][NextIdOpt]_vars

\* the fields of an identifier that a plain identifier is matched against
FieldsOf(id) ==
    IF id.tag = "String" THEN {id.value} ELSE {id.original_id, id.replacement_id}

\* C7: Plain(v) equals Plain(w) iff v = w; Plain(v) equals Mapped(original, replacement)
\* iff v is the original or the replacement, in either argument order; two Mapped
\* values are equal iff their originals or their replacements coincide; final_iri is
\* the replacement of a Mapped value and the value of a Plain one.
C7_IdOptEquality ==
    pc = "compared" =>
        /\ (id_a.tag = "String" /\ id_b.tag = "String")
              => (id_eq.ab <=> id_a.value = id_b.value)
        /\ (id_a.tag = "String" /\ id_b.tag = "ReplacementMap")
              => /\ id_eq.ab <=> id_a.value \in FieldsOf(id_b)
                 /\ id_eq.ba <=> id_a.value \in FieldsOf(id_b)
        /\ (id_a.tag = "ReplacementMap" /\ id_b.tag = "String")
              => /\ id_eq.ab <=> id_b.value \in FieldsOf(id_a)
                 /\ id_eq.ba <=> id_b.value \in FieldsOf(id_a)
        /\ (id_a.tag = "ReplacementMap" /\ id_b.tag = "ReplacementMap")
              => (id_eq.ab <=> (id_a.original_id = id_b.original_id
                                  \/ id_a.replacement_id = id_b.replacement_id))
        /\ id_eq.ab = id_eq.ba
        /\ id_a.tag = "String" => id_eq.iri_a = id_a.value
        /\ id_a.tag = "ReplacementMap" => id_eq.iri_a = id_a.replacement_id

C7_Witness ==
    /\ pc = "compared"
    /\ id_a = ReplacementMap("A", "B")
    /\ id_b = IdString("A")
    /\ id_eq.ab /\ id_eq.ba
    /\ id_eq.iri_a = "B"

-----------------------------------------------------------------------------
(* VocabularyTerm::update_with: the merge of two terms stored under one key. *)

\* Option<T>: None is the empty sequence, Some(x) the sequence holding x
None == <<>>
Some(x) == <<x>>
unwrap(o) == o[1]

Labels == {"", "L1", "L2"}
Comments == {"", "c1", "c2"}
ClassIris == {"A", "B"}
Datatypes == {"String", "Integer"}
ExtraKeys == {"k"}
ExtraValues == {"", "v1", "v2"}

\* HashMap<String, String> of the manifest's extra items
ExtraItemMaps == UNION {[ks -> ExtraValues] : ks \in SUBSET ExtraKeys}

\* the term process_class_term builds from a row
ClassTerms ==
    [type_ : {"rdfs:Class"},
     label : {None} \cup {Some(l) : l \in Labels},
     comment : {None} \cup {Some(c) : c \in Comments},
     domain : {None},
     range : {Some(<<>>)},
     extra_items : ExtraItemMaps]

\* the term process_property_term builds from a row
PropertyTerms ==
    [type_ : {"rdf:Property"},
     label : {Some(l) : l \in Labels},
     comment : {Some(c) : c \in Comments},
     domain : {Some(<<c>>) : c \in ClassIris},
     range : {Some(<<t>>) : t \in Datatypes},
     extra_items : ExtraItemMaps]

\* utils::are_conflicting
are_conflicting(value_one, value_two) ==
    IF value_one # None /\ value_two # None
    THEN IF unwrap(value_one) = "" \/ unwrap(value_two) = ""
         THEN FALSE
         ELSE unwrap(value_one) # unwrap(value_two)
    ELSE FALSE

\* for item in items { if !list.contains(item) { list.push(item) } }
RECURSIVE PushMissing(_, _, _)
PushMissing(list, items, i) ==
    IF i > Len(items) THEN list
    ELSE PushMissing(IF items[i] \in Range(list) THEN list ELSE Append(list, items[i]),
                     items, i + 1)

\* the "Merge domains" / "Merge ranges" blocks of update_with
MergeList(mine, theirs) ==
    IF theirs = None THEN mine
    ELSE IF mine = None THEN theirs
    ELSE Some(PushMissing(unwrap(mine), unwrap(theirs), 1))

\* HashMap::insert
MapInsert(m, key, value) ==
    [k \in DOMAIN m \cup {key} |-> IF k = key THEN value ELSE m[k]]

\* the orders in which a HashMap may hand out its keys
Orders(S) == {o \in [1..Cardinality(S) -> S] : Range(o) = S}

\* the "Merge extra items" loop of update_with, taking the keys of
\* other_entry.extra_items in the given order
RECURSIVE MergeExtraItems(_, _, _, _)
MergeExtraItems(self, other_entry, order, i) ==
    IF i > Len(order) THEN [result |-> "Ok", term |-> self]
    ELSE LET key == order[i]
             value == other_entry.extra_items[key]
             conflict == /\ key \in DOMAIN self.extra_items
                         /\ self.extra_items[key] # value
                         /\ self.extra_items[key] # ""
                         /\ value # ""
         IN IF conflict
            THEN [result |-> "Err", term |-> self]
            ELSE MergeExtraItems([self EXCEPT !.extra_items = MapInsert(@, key, value)],
                                 other_entry, order, i + 1)

\* VocabularyTerm::update_with: the outcome (Ok, Err, or the panic of unwrap() on a
\* None label) and the target term as the call leaves it
update_with(self, other_entry, order) ==
    IF are_conflicting(self.label, other_entry.label)
    THEN [result |-> "Err", term |-> self]
    ELSE IF self.label = None /\ other_entry.label = None
    THEN [result |-> "Panic", term |-> self]
    ELSE LET labelled == IF self.label = None
                         THEN [self EXCEPT !.label = Some(unwrap(other_entry.label))]
                         ELSE self
         IN IF are_conflicting(labelled.comment, other_entry.comment)
            THEN [result |-> "Err", term |-> labelled]
            ELSE MergeExtraItems(
                     [labelled EXCEPT !.domain = MergeList(@, other_entry.domain),
                                      !.range = MergeList(@, other_entry.range)],
                     other_entry, order, 1)

NotRun == [result |-> "NotRun", term |-> None]

InitTerm ==
    /\ pc = "terms"
    /\ \/ term_self \in ClassTerms /\ term_other \in ClassTerms
       \/ term_self \in PropertyTerms /\ term_other \in PropertyTerms
    /\ term_out = [ab |-> NotRun, ba |-> NotRun, abb |-> NotRun]
    /\ is_strict = FALSE
    /\ processing_state = NewState
    /\ IdleOutsideTerm

\* the Occupied arm of process_class_term / process_property_term: the stored term
\* is updated with the term of the later row
MergeInto ==
    /\ pc = "terms"
    /\ term_out.ab.result = "NotRun"
    /\ \E order \in Orders(DOMAIN term_other.extra_items) :
          term_out' = [term_out EXCEPT !.ab = update_with(term_self, term_other, order)]
    /\ UNCHANGED <<pc, term_self, term_other>>
    /\ UNCHANGED outsideTerm

\* the same two rows met in the other order
MergeReverse ==
    /\ pc = "terms"
    /\ term_out.ba.result = "NotRun"
    /\ \E order \in Orders(DOMAIN term_self.extra_items) :
          term_out' = [term_out EXCEPT !.ba = update_with(term_other, term_self, order)]
    /\ UNCHANGED <<pc, term_self, term_other>>
    /\ UNCHANGED outsideTerm

\* the later row met once more
MergeAgain ==
    /\ pc = "terms"
    /\ term_out.ab.result = "Ok"
    /\ term_out.abb.result = "NotRun"
    /\ \E order \in Orders(DOMAIN term_other.extra_items) :
          term_out' = [term_out EXCEPT !.abb = update_with(term_out.ab.term, term_other, order)]
    /\ UNCHANGED <<pc, term_self, term_other>>
    /\ UNCHANGED outsideTerm

NextTerm == MergeInto \/ MergeReverse \/ MergeAgain

SpecTerm == InitTerm /\ [][NextTerm]_vars

AsSet(o) == IF o = None THEN {} ELSE Range(unwrap(o))

SameMergedContent(t, u) ==
    /\ AsSet(t.domain) = AsSet(u.domain)
    /\ AsSet(t.range) = AsSet(u.range)
    /\ t.extra_items = u.extra_items

Agreeing ==
    /\ ~are_conflicting(term_self.label, term_other.label)
    /\ ~are_conflicting(term_self.comment, term_other.comment)

\* C3 as claimed: when the labels and the comments of two terms agree (or one side's
\* is empty) and both merges succeed, merging a into b and b into a give the same
\* domain, range and extra items, and merging the same term again changes none of
\* them; when the labels or the comments conflict the merge fails in both orders.
C3_TermMergeCommutativeIdempotent ==
    /\ (Agreeing /\ term_out.ab.result = "Ok" /\ term_out.ba.result = "Ok")
          => SameMergedContent(term_out.ab.term, term_out.ba.term)
    /\ (Agreeing /\ term_out.abb.result = "Ok")
          => SameMergedContent(term_out.abb.term, term_out.ab.term)
    /\ (~Agreeing /\ term_out.ab.result # "NotRun" /\ term_out.ba.result # "NotRun")
          => (term_out.ab.result # "Ok" /\ term_out.ba.result # "Ok")

\* C4 as claimed: whenever update_with returns an error the target term is exactly
\* as it was before the call.
C4_ConflictRejectedAtomically ==
    /\ term_out.ab.result = "Err" => term_out.ab.term = term_self
    /\ term_out.ba.result = "Err" => term_out.ba.term = term_other
    /\ term_out.abb.result = "Err" => term_out.abb.term = term_out.ab.term

-----------------------------------------------------------------------------
(* JsonLdInstance and the Instance Table. *)

\* serde_json::Value: the variants the instance steps build
JsonString(x) == [kind |-> "String", s |-> x]
JsonArray(xs) == [kind |-> "Array", items |-> xs]
JsonObject(id) == [kind |-> "Object", id |-> id]

is_array(v) == v.kind = "Array"

\* what a HashSet<Value> may yield when collected into a Vec: the members, each
\* once, in any order
SetIntoVec(set) == Orders(set)

\* JsonLdInstance::update_with on one (key, value) of new_instance.properties: the
\* values the entry may hold afterwards
MergeValue(properties, key, value) ==
    IF key \notin DOMAIN properties THEN {value}
    ELSE LET current == properties[key] IN
         IF is_array(current)
         THEN LET set == Range(current.items)
                           \cup (IF is_array(value) THEN Range(value.items) ELSE {value})
              IN {JsonArray(items) : items \in SetIntoVec(set)}
         ELSE {JsonArray(items) : items \in SetIntoVec({current, value})}

\* JsonLdInstance::update_with: the instances self may be afterwards (the call
\* always returns Ok and reads neither id nor type_ of new_instance)
JsonLdInstance_update_with(self, new_instance) ==
    LET keys == DOMAIN self.properties \cup DOMAIN new_instance.properties
        choices == [k \in keys |->
                       IF k \in DOMAIN new_instance.properties
                       THEN MergeValue(self.properties, k, new_instance.properties[k])
                       ELSE {self.properties[k]}]
        merged == {ps \in [keys -> UNION {choices[k] : k \in keys}] :
                       \A k \in keys : ps[k] \in choices[k]}
    IN {[self EXCEPT !.properties = ps] : ps \in merged}

\* InstanceProcessor::update_or_insert_instance: the tables that may result
update_or_insert_instance(table, instance) ==
    IF instance.id \in DOMAIN table
    THEN {MapInsert(table, instance.id, updated) :
              updated \in JsonLdInstance_update_with(table[instance.id], instance)}
    ELSE {MapInsert(table, instance.id, instance)}

InstanceTypes == {"Order", "Invoice"}
SubClasses == {"Rush"}
RawIds == {"1"}
PropertyKeys == {"p"}
PropertyValues == {"x", "y"}

\* utils::to_kebab_case on the class names of the model
to_kebab_case(s) ==
    CASE s = "Order" -> "order"
      [] s = "Invoice" -> "invoice"
      [] s = "Rush" -> "rush"
      [] s = "Item" -> "item"
      [] s = "Color" -> "color"
      [] s = "color" -> "color"

\* if self.is_namespace_iris { format!("{}/{}", to_kebab_case(&class_type), &id) } else { id }
\* (a built string is the sequence of its pieces)
RowId(class_type, id) ==
    IF is_namespace_iris THEN <<to_kebab_case(class_type), "/", id>> ELSE <<id>>

\* the properties a row of a basic step yields: final_values.into(), an array per
\* non-empty column (two values when the step splits the cell on a delimiter)
SimpleProperties ==
    UNION {[ks -> {JsonArray(<<JsonString(v)>>) : v \in PropertyValues}
                    \cup {JsonArray(<<JsonString("x"), JsonString("y")>>)}]
              : ks \in SUBSET PropertyKeys}

\* the properties a row of a subclass step yields: Value::String per non-empty column
SubclassProperties ==
    UNION {[ks -> {JsonString(v) : v \in PropertyValues}] : ks \in SUBSET PropertyKeys}

NoRow == [kind |-> "none"]

\* what a row did, kept for the claims: the stored instance before (None when the id
\* was new), the instance built from the row, the stored instance after, and the
\* messages as they were before the row
Effect(kind, instance, table, state) ==
    [kind |-> kind, id |-> instance.id,
     before |-> IF instance.id \in DOMAIN instances THEN Some(instances[instance.id]) ELSE None,
     incoming |-> instance, after |-> table[instance.id], state_before |-> state]

InitTable ==
    /\ pc = "rows"
    /\ is_strict \in BOOLEAN
    /\ is_namespace_iris \in BOOLEAN
    /\ instances = <<>>
    /\ rows = 0
    /\ last = NoRow
    /\ processing_state = NewState
    /\ IdleOutsideTable

\* a row whose identifier cell is empty: reported (error in strict mode, warning
\* otherwise) and not imported
SkipRow ==
    /\ processing_state' = Report(processing_state, is_strict, [kind |-> "MissingIdentifier"])
    /\ last' = NoRow
    /\ UNCHANGED instances

\* process_simple_instance, one record of a basic (or picklist) step
SimpleRow ==
    /\ pc = "rows" /\ rows < MaxRows
    /\ rows' = rows + 1
    /\ \E class_type \in InstanceTypes, id \in RawIds \cup {""}, properties \in SimpleProperties :
          IF id = "" THEN SkipRow
          ELSE LET instance == [id |-> RowId(class_type, id),
                                type_ |-> <<IdString(class_type)>>,
                                properties |-> properties]
               IN \E table \in update_or_insert_instance(instances, instance) :
                     /\ instances' = table
                     /\ last' = Effect("simple", instance, table, processing_state)
                     /\ UNCHANGED processing_state
    /\ UNCHANGED <<pc, is_strict, is_namespace_iris>>
    /\ UNCHANGED outsideTable

\* process_subclass_instance, one record
SubclassRow ==
    /\ pc = "rows" /\ rows < MaxRows
    /\ rows' = rows + 1
    /\ \E parent_class_type \in InstanceTypes, subclass_ref \in SubClasses,
          id \in RawIds \cup {""}, properties \in SubclassProperties :
          IF id = "" THEN SkipRow
          ELSE LET instance == [id |-> RowId(parent_class_type, id),
                                type_ |-> <<IdString(parent_class_type), IdString(subclass_ref)>>,
                                properties |-> properties]
               IN \E table \in update_or_insert_instance(instances, instance) :
                     /\ instances' = table
                     /\ last' = Effect("subclass", instance, table, processing_state)
                     /\ UNCHANGED processing_state
    /\ UNCHANGED <<pc, is_strict, is_namespace_iris>>
    /\ UNCHANGED outsideTable

\* process_properties_instance, the entry(..).and_modify(..).or_insert_with(..) of a
\* record: the value is appended to the stored property, or stored as a string
AppendProperty(instance, property_id, property_value) ==
    IF property_id \in DOMAIN instance.properties
    THEN LET current == instance.properties[property_id] IN
         [instance EXCEPT !.properties[property_id] =
             IF is_array(current)
             THEN JsonArray(Append(current.items, JsonString(property_value)))
             ELSE JsonArray(<<current, JsonString(property_value)>>)]
    ELSE [instance EXCEPT !.properties =
             MapInsert(@, property_id, JsonString(property_value))]

\* process_properties_instance, one record
PropertiesRow ==
    /\ pc = "rows" /\ rows < MaxRows
    /\ rows' = rows + 1
    /\ \E class_type \in InstanceTypes, id \in RawIds \cup {""},
          property_id \in PropertyKeys, property_value \in PropertyValues :
          IF id = "" THEN SkipRow
          ELSE LET entity_id == RowId(class_type, id)
                   instance == [id |-> entity_id, type_ |-> <<IdString(class_type)>>,
                                properties |-> [k \in {property_id} |-> JsonString(property_value)]]
                   table == IF entity_id \in DOMAIN instances
                            THEN MapInsert(instances, entity_id,
                                     AppendProperty(instances[entity_id], property_id, property_value))
                            ELSE MapInsert(instances, entity_id, instance)
               IN /\ instances' = table
                  /\ last' = Effect("properties", instance, table, processing_state)
                  /\ UNCHANGED processing_state
    /\ UNCHANGED <<pc, is_strict, is_namespace_iris>>
    /\ UNCHANGED outsideTable

NextTable == SimpleRow \/ SubclassRow \/ PropertiesRow

SpecTable == InitTable /\ [][NextTable]_vars

\* the values a property holds: the items of an array, or the one scalar
ValuesOf(properties, key) ==
    IF key \notin DOMAIN properties THEN {}
    ELSE IF is_array(properties[key]) THEN Range(properties[key].items)
    ELSE {properties[key]}

\* two instances hold the same values under the same keys
SameValues(a, b) ==
    /\ DOMAIN a.properties = DOMAIN b.properties
    /\ \A k \in DOMAIN a.properties : ValuesOf(a.properties, k) = ValuesOf(b.properties, k)

Merged == last.kind \in {"simple", "subclass"} /\ last.before # None

\* C2 as claimed: update_with on two instances with equal ids and equal type lists
\* leaves, under every key, the deduplicated union of both sides' values, and
\* merging the result again with either input changes nothing.
C2_MergeIsDeduplicatedUnion ==
    (Merged /\ unwrap(last.before).type_ = last.incoming.type_) =>
        LET before == unwrap(last.before) IN
        /\ DOMAIN last.after.properties
              = DOMAIN before.properties \cup DOMAIN last.incoming.properties
        /\ \A k \in DOMAIN last.after.properties :
              /\ ValuesOf(last.after.properties, k)
                    = ValuesOf(before.properties, k) \cup ValuesOf(last.incoming.properties, k)
              /\ is_array(last.after.properties[k])
                    => Len(last.after.properties[k].items)
                          = Cardinality(Range(last.after.properties[k].items))
        /\ \A again \in JsonLdInstance_update_with(last.after, last.incoming) :
              SameValues(again, last.after)
        /\ \A again \in JsonLdInstance_update_with(last.after, before) :
              SameValues(again, last.after)

\* C5 as claimed: a non-subclass merge whose type list differs from the stored one is
\* reported and leaves the stored instance alone; a subclass merge leaves the union
\* of both type lists.
C5_TypeListsCheckedOnMerge ==
    /\ (last.kind = "simple" /\ last.before # None
           /\ unwrap(last.before).type_ # last.incoming.type_)
          => /\ processing_state # last.state_before
             /\ last.after = unwrap(last.before)
    /\ (last.kind = "subclass" /\ last.before # None)
          => Range(last.after.type_)
                = Range(unwrap(last.before).type_) \cup Range(last.incoming.type_)

-----------------------------------------------------------------------------
(* Picklists: the picklist step registers the values of a class, the coercion of *)
(* a PicklistReference column checks a cell against them.                        *)

BaseIris == {<<>>, <<"http://example.org/">>}
ModelBaseIris == {<<>>, <<"http://example.org/model/">>}

\* the class id as the model CSV spells it
PicklistClassIds == {"Color", "color"}
PicklistValues == {"X", "Y"}
PicklistCells == {"X", "Y"}

\* utils::normalize_label_for_iri on the class ids of the model
normalize_label_for_iri(s) ==
    CASE s = "Color" -> "Color"
      [] s = "color" -> "color"
      [] s = "Rush" -> "Rush"
      [] s = "rush order" -> "rush-order"

\* utils::to_pascal_case on the class ids of the model
to_pascal_case(s) ==
    CASE s = "Color" -> "Color"
      [] s = "color" -> "Color"
      [] s = "Rush" -> "Rush"
      [] s = "rush-order" -> "RushOrder"

\* utils::expand_iri_with_base for a well-formed base without a fragment and a
\* relative IRI without a scheme: an empty base does not parse and the IRI is
\* returned as it is, otherwise the IRI is resolved against the base
expand_iri_with_base(base_iri, possibly_relative_iri) ==
    IF base_iri = <<>> THEN possibly_relative_iri ELSE base_iri \o possibly_relative_iri

\* IdOpt::normalize, IdOpt::to_pascal_case and IdOpt::with_base_iri on IdOpt::String
\* whose text is one piece
IdOpt_normalize(id) == IdString(<<normalize_label_for_iri(id.value[1])>>)
IdOpt_to_pascal_case(id) == IdString(<<to_pascal_case(id.value[1])>>)
with_base_iri(id, base_iri) == IdString(expand_iri_with_base(base_iri, id.value))

\* impl Display for IdOpt (IdOpt::String)
to_string(id) == id.value

\* InstanceProcessor::new: the base IRI the coercion expands picklist values with
instances_base_iri ==
    IF manifest_base_iri = <<>> THEN model_base_iri ELSE manifest_base_iri

\* process_property_term: the target class of a Picklist range
TargetClass(property_class) ==
    expand_iri_with_base(model_base_iri, <<to_pascal_case(property_class)>>)

\* VocabularyMap::update_or_insert_picklist_instance with a plausible slip: the
\* value list is set to the new id instead of being extended
picklist_instance_replaces(classes, class_name, instance_id) ==
    LET keys == {id \in DOMAIN classes :
                    IdOpt_to_pascal_case(IdOpt_normalize(id)).value = <<class_name>>}
    IN IF keys = {} THEN None
       ELSE LET class_key == CHOOSE id \in keys : TRUE
            IN Some([classes EXCEPT ![class_key].one_of = Some(<<instance_id>>)])

\* VocabularyMap::update_or_insert_picklist_instance with a plausible slip: a class
\* that is not found is inserted, as entry(..).or_insert would
picklist_instance_inserts_class(classes, class_name, instance_id) ==
    LET keys == {id \in DOMAIN classes :
                    IdOpt_to_pascal_case(IdOpt_normalize(id)).value = <<class_name>>}
    IN IF keys = {}
       THEN Some(MapInsert(classes, IdString(<<class_name>>),
                           [one_of |-> Some(<<instance_id>>)]))
       ELSE LET class_key == CHOOSE id \in keys : TRUE
                one_of == classes[class_key].one_of
            IN Some([classes EXCEPT ![class_key].one_of =
                        IF one_of # None THEN Some(Append(unwrap(one_of), instance_id))
                        ELSE Some(<<instance_id>>)])

\* VocabularyMap::update_or_insert_picklist_instance: the class key whose normalized
\* Pascal-case id is class_name gets instance_id pushed to its one_of; None when no
\* key matches (the Err arm)
update_or_insert_picklist_instance(classes, class_name, instance_id) ==
    LET keys == {id \in DOMAIN classes :
                    IdOpt_to_pascal_case(IdOpt_normalize(id)).value = <<class_name>>}
    IN IF keys = {} THEN None
       ELSE LET class_key == CHOOSE id \in keys : TRUE
                one_of == classes[class_key].one_of
            IN Some([classes EXCEPT ![class_key].one_of =
                        IF one_of # None THEN Some(Append(unwrap(one_of), instance_id))
                        ELSE Some(<<instance_id>>)])

\* process_class_restricted_value for a Picklist datatype:
\* [result, value, state] - Ok with the emitted string or Err, and the processing
\* state with the warnings the call added
process_class_restricted_value(value, target_class, state) ==
    LET matches == {id \in DOMAIN vocabulary :
                       with_base_iri(IdOpt_to_pascal_case(IdOpt_normalize(id)),
                                     model_base_iri).value = target_class}
    IN IF matches = {}
       THEN [result |-> "Err", value |-> None, state |-> state]
       ELSE
       LET class_match == CHOOSE id \in matches : TRUE
           one_of == vocabulary[class_match].one_of
           kebab == to_kebab_case(to_string(class_match)[1])
           iri == expand_iri_with_base(instances_base_iri, <<kebab, "/", value>>)
           enum_picklist == IF one_of # None THEN unwrap(one_of) ELSE <<>>
           state1 == IF one_of = None
                     THEN AddWarning(state, [kind |-> "NoPicklistEnums"])
                     ELSE state
           does_picklist_contain_value ==
               \E i \in DOMAIN enum_picklist : to_string(enum_picklist[i]) = iri
           state2 == IF does_picklist_contain_value
                     THEN state1
                     ELSE AddWarning(state1, [kind |-> "NotInPicklist", value |-> value])
           emitted == IF is_namespace_iris THEN <<kebab, "/", value>> ELSE <<value>>
       IN IF one_of = None /\ is_strict
          THEN [result |-> "Err", value |-> None, state |-> state]
          ELSE IF ~does_picklist_contain_value /\ is_strict
          THEN [result |-> "Err", value |-> None, state |-> state]
          ELSE [result |-> "Ok", value |-> Some(JsonString(emitted)), state |-> state2]

InitPicklist ==
    /\ pc = "picklist"
    /\ is_strict \in BOOLEAN
    /\ is_namespace_iris \in BOOLEAN
    /\ manifest_base_iri \in BaseIris
    /\ model_base_iri \in ModelBaseIris
    /\ \/ \E class_id \in PicklistClassIds :
             vocabulary = [id \in {IdString(<<class_id>>)} |-> [one_of |-> None]]
       \/ vocabulary = <<>>
    /\ instances = <<>>
    /\ rows = 0
    /\ last = NoRow
    /\ processing_state = NewState
    /\ IdleOutsidePicklist

\* process_simple_instance, one record of the picklist step of class Color: a
\* record without identifier is reported and skipped; otherwise the instance is
\* stored and its id, expanded with the manifest's instance base IRI, is
\* registered as a value of the class
PicklistRow ==
    /\ pc = "picklist" /\ rows < MaxRows
    /\ rows' = rows + 1
    /\ \E id \in PicklistValues \cup {""} :
          IF id = ""
          THEN /\ processing_state' = Report(processing_state, is_strict,
                                             [kind |-> "MissingIdentifier"])
               /\ last' = [kind |-> "skipped", vocabulary_before |-> vocabulary,
                           instances_before |-> instances,
                           state_before |-> processing_state]
               /\ UNCHANGED <<instances, vocabulary>>
          ELSE
          LET class_type == "Color"
              instance == [id |-> RowId(class_type, id),
                           type_ |-> <<IdString(class_type)>>,
                           properties |-> <<>>]
              final_instance_id_with_base ==
                  with_base_iri(IdString(instance.id), manifest_base_iri)
              registered == update_or_insert_picklist_instance(
                                vocabulary, class_type, final_instance_id_with_base)
          IN \E table \in update_or_insert_instance(instances, instance) :
                /\ instances' = table
                /\ last' = Effect("picklist", instance, table, processing_state)
                /\ IF registered = None
                   THEN /\ processing_state' = Report(processing_state, is_strict,
                                                      [kind |-> "PicklistClassNotFound"])
                        /\ UNCHANGED vocabulary
                   ELSE /\ vocabulary' = unwrap(registered)
                        /\ UNCHANGED processing_state
    /\ UNCHANGED <<pc, is_strict, is_namespace_iris, manifest_base_iri, model_base_iri>>
    /\ UNCHANGED outsidePicklist

\* Processor::process: the picklist steps come first, the other steps follow
StartBasic ==
    /\ pc = "picklist"
    /\ pc' = "basic"
    /\ UNCHANGED <<is_strict, processing_state, instVars, vocabVars>>
    /\ UNCHANGED outsidePicklist

\* process_simple_instance, one record of a basic step of class Order whose column
\* color is a PicklistReference to Color: the cell is coerced, a failed coercion is
\* reported and leaves the property without a value
BasicRow ==
    /\ pc = "basic" /\ rows < MaxRows
    /\ rows' = rows + 1
    /\ \E value \in PicklistCells :
          LET class_type == "Order"
              coerced == process_class_restricted_value(
                             value, TargetClass("Color"), processing_state)
              state == IF coerced.result = "Ok" THEN coerced.state
                       ELSE Report(coerced.state, is_strict,
                                   [kind |-> "NotInPicklist", value |-> value])
              final_values == IF coerced.result = "Ok" THEN <<unwrap(coerced.value)>> ELSE <<>>
              instance == [id |-> RowId(class_type, "1"),
                           type_ |-> <<IdString(class_type)>>,
                           properties |-> [k \in {"color"} |-> JsonArray(final_values)]]
          IN \E table \in update_or_insert_instance(instances, instance) :
                /\ instances' = table
                /\ processing_state' = state
                /\ last' = [Effect("basic", instance, table, processing_state)
                               EXCEPT !.kind = "basic"] @@
                           [cell |-> value, result |-> coerced.result, emitted |-> coerced.value]
    /\ UNCHANGED <<pc, is_strict, is_namespace_iris, vocabVars>>
    /\ UNCHANGED outsidePicklist

NextPicklist == PicklistRow \/ StartBasic \/ BasicRow

SpecPicklist == InitPicklist /\ [][NextPicklist]_vars

ColorValuesAre(xs) ==
    \E id \in DOMAIN vocabulary :
        /\ vocabulary[id].one_of # None
        /\ \E vs \in [DOMAIN unwrap(vocabulary[id].one_of) -> xs] : Range(vs) = xs

\* C6 as claimed: once the picklist step has given Color the values {X}, for every
\* setting of namespacing and base IRI, the cell "X" is coerced with no error and no
\* warning; the cell "Y" is an error in strict mode, and in lenient mode a warning
\* with the value still emitted.
C6_PicklistValidation ==
    (last.kind = "basic" /\ ColorValuesAre({"X"})) =>
        /\ last.cell = "X" =>
              /\ last.result = "Ok"
              /\ processing_state = last.state_before
        /\ (last.cell = "Y" /\ is_strict) =>
              /\ last.result = "Err"
              /\ Len(processing_state.errors) > Len(last.state_before.errors)
        /\ (last.cell = "Y" /\ ~is_strict) =>
              /\ last.result = "Ok"
              /\ Len(processing_state.warnings) > Len(last.state_before.warnings)
              /\ unwrap(last.emitted).s[Len(unwrap(last.emitted).s)] = "Y"

\* the values registered for the class of the picklist step
RegisteredValues ==
    UNION {IF vocabulary[id].one_of = None THEN {}
           ELSE Range(unwrap(vocabulary[id].one_of)) : id \in DOMAIN vocabulary}

\* a record without identifier adds nothing, and a record whose class is not in the
\* vocabulary is stored and reported: an error in strict mode, a warning otherwise
SkippedAndUnregisteredRows ==
    /\ (pc = "picklist" /\ last.kind = "skipped") =>
          /\ vocabulary = last.vocabulary_before
          /\ instances = last.instances_before
    /\ (pc = "picklist" /\ last.kind = "picklist" /\ vocabulary = <<>>) =>
          /\ is_strict =>
                /\ Len(processing_state.errors) = Len(last.state_before.errors) + 1
                /\ processing_state.warnings = last.state_before.warnings
          /\ ~is_strict =>
                /\ Len(processing_state.warnings) = Len(last.state_before.warnings) + 1
                /\ processing_state.errors = last.state_before.errors

-----------------------------------------------------------------------------
(* Pivot columns: a basic step of class Order whose columns quantity and reference *)
(* are pivoted into a node of type Item, linked from the row by hasItems.          *)

JsonNumber(n) == [kind |-> "Number", n |-> n]

PivotIdCells == {"", "1"}
QuantityCells == {"", "3", "abc"}
ReferenceCells == {"", "r"}

\* the headers validate_headers returns for the step, in column order
PivotHeaders ==
    <<[name |-> "quantity", datatype |-> "Integer"],
      [name |-> "reference", datatype |-> "String"]>>

\* PivotColumn of the step
pivot_column ==
    [new_relationship_property |-> "hasItems", instance_type |-> "Item",
     columns |-> {"quantity", "reference"}]

\* cleaned_value.parse::<i64>() on the cells of the model: Some(number) or None
parse_i64(value) == IF value = "3" THEN Some(3) ELSE None

\* process_value for the Integer and String datatypes: [result, value, state]
process_value(value, datatype, state) ==
    IF datatype = "Integer"
    THEN IF parse_i64(value) # None
         THEN [result |-> "Ok", value |-> JsonNumber(unwrap(parse_i64(value))), state |-> state]
         ELSE IF is_strict
         THEN [result |-> "Err", value |-> JsonString(value), state |-> state]
         ELSE [result |-> "Ok", value |-> JsonString(value),
               state |-> AddWarning(state, [kind |-> "InvalidInteger", value |-> value])]
    ELSE [result |-> "Ok", value |-> JsonString(value), state |-> state]

\* Uuid::new_v4(): an id no node of the table has
UuidNames == <<"u1", "u2", "u3", "u4", "u5", "u6", "u7", "u8">>
new_v4(table) ==
    <<UuidNames[CHOOSE n \in DOMAIN UuidNames :
                    /\ <<UuidNames[n]>> \notin DOMAIN table
                    /\ \A m \in 1..(n - 1) : <<UuidNames[m]>> \in DOMAIN table]>>

\* a plausible slip: the link is written for every pivot column, not only the first
pivot_property_insert(properties, key, id) ==
    MapInsert(properties, key, JsonObject(id))

\* properties.entry(new_relationship_property).or_insert_with(|| {"@id": uuid})
pivot_property_entry(properties, key, id) ==
    IF key \in DOMAIN properties THEN properties
    ELSE MapInsert(properties, key, JsonObject(id))

\* the loop over the headers of one record: acc is [properties, table, state]; the
\* result is the set of values acc may have after the last column
RECURSIVE PivotColumns(_, _, _)
PivotColumns(acc, cells, i) ==
    IF i > Len(PivotHeaders) THEN {acc}
    ELSE LET header == PivotHeaders[i]
             value == cells[header.name]
         IN IF value = "" THEN PivotColumns(acc, cells, i + 1)
            ELSE
            LET processed == process_value(value, header.datatype, acc.state)
                state == IF processed.result = "Ok" THEN processed.state
                         ELSE AddError(processed.state,
                                       [kind |-> "InvalidInteger", value |-> value])
                final_values == IF processed.result = "Ok" THEN <<processed.value>> ELSE <<>>
                properties == pivot_property_entry(
                                  acc.properties, pivot_column.new_relationship_property,
                                  new_v4(acc.table))
                id == properties[pivot_column.new_relationship_property].id
                new_instance == [id |-> id,
                                 type_ |-> <<IdString(pivot_column.instance_type)>>,
                                 properties |-> [k \in {header.name} |-> JsonArray(final_values)]]
            IN UNION {PivotColumns([properties |-> properties, table |-> table,
                                    state |-> state], cells, i + 1)
                         : table \in update_or_insert_instance(acc.table, new_instance)}

InitPivot ==
    /\ pc = "pivot"
    /\ is_strict \in BOOLEAN
    /\ is_namespace_iris \in BOOLEAN
    /\ instances = <<>>
    /\ rows = 0
    /\ last = NoRow
    /\ processing_state = NewState
    /\ IdleOutsidePivot

\* process_simple_instance, one record of the step: a record without identifier or
\* with a field count other than the header's is reported and skipped; otherwise
\* the columns are taken in order and the row's instance is stored
PivotRow ==
    /\ pc = "pivot" /\ rows < MaxPivotRows
    /\ rows' = rows + 1
    /\ \E id \in PivotIdCells, quantity \in QuantityCells, reference \in ReferenceCells,
          same_length \in BOOLEAN :
          LET cells == [quantity |-> quantity, reference |-> reference]
              row == [kind |-> "pivot", id_cell |-> id, cells |-> cells,
                      same_length |-> same_length, id |-> RowId("Order", id),
                      table_before |-> instances, state_before |-> processing_state]
          IN /\ last' = row
             /\ IF id = ""
                THEN /\ processing_state' = Report(processing_state, is_strict,
                                                   [kind |-> "MissingIdentifier"])
                     /\ UNCHANGED instances
                ELSE IF ~same_length
                THEN /\ processing_state' = Report(processing_state, is_strict,
                                                   [kind |-> "ColumnCount"])
                     /\ UNCHANGED instances
                ELSE \E acc \in PivotColumns([properties |-> <<>>, table |-> instances,
                                              state |-> processing_state], cells, 1) :
                        LET instance == [id |-> RowId("Order", id),
                                         type_ |-> <<IdString("Order")>>,
                                         properties |-> acc.properties]
                        IN \E table \in update_or_insert_instance(acc.table, instance) :
                              /\ instances' = table
                              /\ processing_state' = acc.state
    /\ UNCHANGED <<pc, is_strict, is_namespace_iris>>
    /\ UNCHANGED outsidePivot

NextPivot == PivotRow

SpecPivot == InitPivot /\ [][NextPivot]_vars

ItemNodes(table) == {id \in DOMAIN table : table[id].type_ = <<IdString("Item")>>}

NewItemNodes == ItemNodes(instances) \ ItemNodes(last.table_before)

NonEmptyMembers == {c \in pivot_column.columns : last.cells[c] # ""}

Imported == last.id_cell # "" /\ last.same_length

Link(node) == JsonObject(node)

\* the coerced values of a cell of a member column: none when the coercion fails
CoercedValues(column, value) ==
    CASE column = "reference" -> <<JsonString(value)>>
      [] column = "quantity" /\ value = "3" -> <<JsonNumber(3)>>
      [] column = "quantity" /\ value # "3" /\ is_strict -> <<>>
      [] column = "quantity" /\ value # "3" /\ ~is_strict -> <<JsonString(value)>>

-----------------------------------------------------------------------------
(* Processor::process with the outcome of each step: what process_vocabulary *)
(* and the three process_*_instance functions hand back.                     *)

MaxRunSteps == 2

RunPaths == {"a.csv", "b.csv"}

RunInstanceStepTags == {"BasicInstanceStep", "PicklistStep", "SubClassInstanceStep"}

RunModelSequences == {MkSteps(r) : r \in SeqsUpTo(RunPaths \X ModelStepTags, MaxRunSteps)}

RunInstanceSequences ==
    {MkSteps(r) : r \in SeqsUpTo(RunPaths \X RunInstanceStepTags, MaxRunSteps)}

\* ProcessorError::Processing raised by a step before its row loop (the file cannot
\* be read, the headers are invalid, no identifier is known for the class, ...)
StepError(phase, step) == [kind |-> "Processing", phase |-> phase, path |-> step.path]

\* a message a step's row loop leaves in the state it returns
RowIssue(phase, step) == [kind |-> "RowIssue", phase |-> phase, path |-> step.path]

\* what a step function returns: Ok(ProcessingState) or Err(ProcessorError); the
\* state of an Ok is clean or holds what the rows left, an error in strict mode and
\* a warning otherwise
StepOutcomes(phase, step, strict) ==
    {[result |-> "Ok", state |-> NewState],
     [result |-> "Ok", state |-> Report(NewState, strict, RowIssue(phase, step))],
     [result |-> "Err", error |-> StepError(phase, step)]}

\* contains_variant!(step.types, StepType::ModelStep(_))
IsModelStep(step) == \E i \in DOMAIN step.types : step.types[i] \in ModelStepTags

\* step.types.iter().find_map(InstanceStep): whether an instance step type is found
HasInstanceStepType(step) == \E i \in DOMAIN step.types : step.types[i] \in InstanceStepTags

\* Processor::process_model_step: the state after it, and what it returns
process_model_step(state, strict, step, outcome) ==
    [result |-> "Ok",
     state  |-> IF IsModelStep(step)
                THEN IF outcome.result = "Ok"
                     THEN MergeState(state, outcome.state)
                     ELSE Report(state, strict, outcome.error)
                ELSE state]

\* Processor::process_instance_step: the state after it, and what it returns
process_instance_step(state, strict, step, outcome) ==
    [result |-> "Ok",
     state  |-> IF ~HasInstanceStepType(step)
                THEN Report(state, strict,
                            [kind |-> "Processing", phase |-> "instance",
                             path |-> "No valid instance step type found"])
                ELSE IF outcome.result = "Ok"
                     THEN MergeState(state, outcome.state)
                     ELSE Report(state, strict, outcome.error)]

\* the body of `if let Err(e) = self.process_*_step(step)` in the two loops
AfterStep(r, phase, step) ==
    IF r.result = "Err"
    THEN AddError(r.state, [kind |-> "Error processing step", phase |-> phase,
                            path |-> step.path])
    ELSE r.state

\* a plausible slip: the loop is left at the first step that returned an error
rest_of_loop_stop_on_error(steps, outcome) ==
    IF outcome.result = "Err" THEN <<>> ELSE Tail(steps)

\* the steps the loop has still to take after the current one
rest_of_loop(steps, outcome) == Tail(steps)

InitRun ==
    /\ pc = "start"
    /\ is_strict \in BOOLEAN
    /\ loaded \in [model : RunModelSequences, instances : RunInstanceSequences]
    /\ manifest = loaded
    /\ queue = <<>>
    /\ ran = <<>>
    /\ did_reorder_instance_sequence = FALSE
    /\ processing_state = NewState
    /\ IdleOutsidePipe

\* one turn of `for step in model_sequence.drain(..)`
RunModelStep ==
    /\ pc = "model"
    /\ queue # <<>>
    /\ \E outcome \in StepOutcomes("model", Head(queue), is_strict) :
          LET step == Head(queue)
              r == process_model_step(processing_state, is_strict, step, outcome)
          IN /\ processing_state' = AfterStep(r, "model", step)
             /\ ran' = Append(ran, [phase |-> "model", step |-> step, outcome |-> outcome])
             /\ queue' = rest_of_loop(queue, outcome)
    /\ UNCHANGED <<pc, is_strict, loaded, manifest, did_reorder_instance_sequence>>
    /\ UNCHANGED outsidePipe

\* one turn of `for step in instance_sequence`
RunInstanceStep ==
    /\ pc = "instances"
    /\ queue # <<>>
    /\ \E outcome \in StepOutcomes("instance", Head(queue), is_strict) :
          LET step == Head(queue)
              r == process_instance_step(processing_state, is_strict, step, outcome)
          IN /\ processing_state' = AfterStep(r, "instance", step)
             /\ ran' = Append(ran, [phase |-> "instance", step |-> step, outcome |-> outcome])
             /\ queue' = rest_of_loop(queue, outcome)
    /\ UNCHANGED <<pc, is_strict, loaded, manifest, did_reorder_instance_sequence>>
    /\ UNCHANGED outsidePipe

NextRun == Validate \/ RunModelStep \/ SortInstances \/ RunInstanceStep \/ Finish

SpecRun == InitRun /\ [][NextRun]_vars

\* the phases of the steps run so far, in the order they ran
PhasesRan == [i \in DOMAIN ran |-> ran[i].phase]

\* C11: the model steps run in manifest order and all of them before the first
\* instance step; the error a step returned is recorded in the processing state, and
\* whatever the steps returned, every remaining step of both phases is still taken:
\* the loop of each phase keeps every step not yet run, and at the end of the run
\* every step of both sequences has run.
C11_ModelFirstAndErrorsDoNotStop ==
    /\ IsPrefix(RanOf("model"), manifest.model)
    /\ \A i, j \in DOMAIN ran :
          (ran[i].phase = "instance" /\ ran[j].phase = "model") => j < i
    /\ RanOf("instance") # <<>> => RanOf("model") = manifest.model
    /\ \A i \in DOMAIN ran :
          ran[i].outcome.result = "Err" => ran[i].outcome.error \in Diagnostics
    /\ pc = "model" => RanOf("model") \o queue = manifest.model
    /\ pc = "instances" =>
          RanOf("instance") \o queue = StablePartition(manifest.instances)
    /\ pc = "done" =>
          /\ RanOf("model") = manifest.model
          /\ RanOf("instance") = StablePartition(manifest.instances)

C11_Witness ==
    /\ pc = "done"
    /\ Len(RanOf("model")) = 2
    /\ Len(RanOf("instance")) = 2
    /\ ran[1].outcome.result = "Err"
    /\ ran[3].outcome.result = "Err"
    /\ ran[2].phase = "model"
    /\ ran[4].phase = "instance"

-----------------------------------------------------------------------------
(* Date coercion: process_value for PropertyDatatype::Date, with the parsing of *)
(* chrono::NaiveDate::parse_from_str.  A text is the sequence of its characters. *)

DigitChars == <<"0", "1", "2", "3", "4", "5", "6", "7", "8", "9">>

IsDigit(c) == \E i \in DOMAIN DigitChars : DigitChars[i] = c

DigitValue(c) == (CHOOSE i \in DOMAIN DigitChars : DigitChars[i] = c) - 1

\* str::trim_start / trim_end / trim
RECURSIVE TrimStart(_)
TrimStart(s) == IF s # <<>> /\ Head(s) = " " THEN TrimStart(Tail(s)) ELSE s

RECURSIVE TrimEnd(_)
TrimEnd(s) ==
    IF s # <<>> /\ s[Len(s)] = " " THEN TrimEnd(SubSeq(s, 1, Len(s) - 1)) ELSE s

Trim(s) == TrimEnd(TrimStart(s))

\* str::replace of one character by another
Replace(s, from, to) == [i \in DOMAIN s |-> IF s[i] = from THEN to ELSE s[i]]

\* Option::and_then and Option::or
and_then(o, F(_)) == IF o = None THEN None ELSE F(unwrap(o))
or(o, optb) == IF o # None THEN o ELSE optb

\* chrono's scan::number(s, 1, max): the longest run of at most max digits at the
\* start of s, as Some([n, rest]); None when s does not start with a digit
RECURSIVE ScanNumber(_, _, _, _)
ScanNumber(s, max, taken, n) ==
    IF taken < max /\ s # <<>> /\ IsDigit(Head(s))
    THEN ScanNumber(Tail(s), max, taken + 1, n * 10 + DigitValue(Head(s)))
    ELSE IF taken = 0 THEN None ELSE Some([n |-> n, rest |-> s])

\* the month names chrono knows: the three letters, and what the long name adds
ShortMonths ==
    <<<<"J", "a", "n">>,
      <<"F", "e", "b">>,
      <<"M", "a", "r">>,
      <<"A", "p", "r">>,
      <<"M", "a", "y">>,
      <<"J", "u", "n">>,
      <<"J", "u", "l">>,
      <<"A", "u", "g">>,
      <<"S", "e", "p">>,
      <<"O", "c", "t">>,
      <<"N", "o", "v">>,
      <<"D", "e", "c">>>>

LongMonthSuffixes ==
    <<<<"u", "a", "r", "y">>,
      <<"r", "u", "a", "r", "y">>,
      <<"c", "h">>,
      <<"i", "l">>,
      <<>>,
      <<"e">>,
      <<"y">>,
      <<"u", "s", "t">>,
      <<"t", "e", "m", "b", "e", "r">>,
      <<"o", "b", "e", "r">>,
      <<"e", "m", "b", "e", "r">>,
      <<"e", "m", "b", "e", "r">>>>

\* scan::short_month0: Some([n, rest]) with n the month number (the texts of the
\* model spell the names with their usual capitals)
short_month0(s) ==
    IF Len(s) >= 3 /\ \E i \in DOMAIN ShortMonths : ShortMonths[i] = SubSeq(s, 1, 3)
    THEN Some([n |-> CHOOSE i \in DOMAIN ShortMonths : ShortMonths[i] = SubSeq(s, 1, 3),
               rest |-> SubSeq(s, 4, Len(s))])
    ELSE None

\* scan::short_or_long_month0: the short name, and the rest of the long name when
\* it follows
short_or_long_month0(s) ==
    and_then(short_month0(s),
             LAMBDA m :
                 IF IsPrefix(LongMonthSuffixes[m.n], m.rest)
                 THEN Some([n |-> m.n,
                            rest |-> SubSeq(m.rest, Len(LongMonthSuffixes[m.n]) + 1, Len(m.rest))])
                 ELSE Some(m))

\* the items of a format string
Numeric(field, width) == [item |-> "Numeric", field |-> field, width |-> width]
Year == Numeric("year", 4)
Month == Numeric("month", 2)
Day == Numeric("day", 2)
Hour == Numeric("hour", 2)
Minute == Numeric("minute", 2)
Second == Numeric("second", 2)
Literal(c) == [item |-> "Literal", c |-> c]
Space == [item |-> "Space"]
ShortMonthName == [item |-> "ShortMonthName"]
LongMonthName == [item |-> "LongMonthName"]

\* Parsed::set_*: a field already set to another value makes the parse fail
SetField(parsed, field, value) ==
    IF field \in DOMAIN parsed /\ parsed[field] # value THEN None
    ELSE Some(MapInsert(parsed, field, value))

\* one item of a format read at the start of s: Some([rest, parsed]), None when the
\* item does not match (a number is read without sign: no text of the model has a
\* sign where a year is read)
ParseItem(s, it, parsed) ==
    CASE it.item = "Literal" ->
             IF s # <<>> /\ Head(s) = it.c
             THEN Some([rest |-> Tail(s), parsed |-> parsed]) ELSE None
      [] it.item = "Space" -> Some([rest |-> TrimStart(s), parsed |-> parsed])
      [] it.item \in {"Numeric", "ShortMonthName", "LongMonthName"} ->
             and_then(CASE it.item = "Numeric" -> ScanNumber(TrimStart(s), it.width, 0, 0)
                        [] it.item = "ShortMonthName" -> short_month0(s)
                        [] it.item = "LongMonthName" -> short_or_long_month0(s),
                      LAMBDA v :
                          and_then(SetField(parsed,
                                            IF it.item = "Numeric" THEN it.field ELSE "month",
                                            v.n),
                                   LAMBDA p : Some([rest |-> v.rest, parsed |-> p])))

\* format::parse: the fields read from s under the items, None when an item does
\* not match or text is left over
RECURSIVE ParseItems(_, _, _)
ParseItems(s, items, parsed) ==
    IF items = <<>> THEN (IF s = <<>> THEN Some(parsed) ELSE None)
    ELSE and_then(ParseItem(s, Head(items), parsed),
                  LAMBDA read : ParseItems(read.rest, Tail(items), read.parsed))

IsLeapYear(y) == (y % 4 = 0 /\ y % 100 # 0) \/ y % 400 = 0

DaysInMonth(y, m) ==
    IF m = 2 THEN (IF IsLeapYear(y) THEN 29 ELSE 28)
    ELSE IF m \in {4, 6, 9, 11} THEN 30 ELSE 31

\* NaiveDate::from_ymd_opt for a year that is not negative (262142 is the last year
\* a NaiveDate holds)
from_ymd_opt(year, month, day) ==
    IF year <= 262142 /\ month \in 1..12 /\ day \in 1..DaysInMonth(year, month)
    THEN Some([year |-> year, month |-> month, day |-> day])
    ELSE None

\* Parsed::to_naive_date: a date needs its year, month and day; the time of day is
\* read and dropped (the one text of the model that has a time has a valid one)
to_naive_date(parsed) ==
    IF {"year", "month", "day"} \subseteq DOMAIN parsed
    THEN from_ymd_opt(parsed.year, parsed.month, parsed.day)
    ELSE None

\* chrono::NaiveDate::parse_from_str(s, fmt).ok()
parse_from_str(s, items) == and_then(ParseItems(s, items, <<>>), to_naive_date)

\* str::parse::<i32>() on a text without sign: digits only (the texts of the model
\* are far shorter than an i32 overflow needs)
parse_i32(s) ==
    IF s # <<>> /\ \A i \in DOMAIN s : IsDigit(s[i])
    THEN Some(unwrap(ScanNumber(s, Len(s), 0, 0)).n)
    ELSE None

\* utils::DATE_FORMATS, in order
DATE_FORMATS ==
    <<[fmt |-> "%Y-%m-%d",
       items |-> <<Year, Literal("-"), Month, Literal("-"), Day>>],
      [fmt |-> "%Y/%m/%d",
       items |-> <<Year, Literal("/"), Month, Literal("/"), Day>>],
      [fmt |-> "%m-%d-%Y",
       items |-> <<Month, Literal("-"), Day, Literal("-"), Year>>],
      [fmt |-> "%m/%d/%Y",
       items |-> <<Month, Literal("/"), Day, Literal("/"), Year>>],
      [fmt |-> "%d-%m-%Y",
       items |-> <<Day, Literal("-"), Month, Literal("-"), Year>>],
      [fmt |-> "%d/%m/%Y",
       items |-> <<Day, Literal("/"), Month, Literal("/"), Year>>],
      [fmt |-> "%Y-%m-%d %H:%M:%S",
       items |-> <<Year, Literal("-"), Month, Literal("-"), Day, Space, Hour, Literal(":"), Minute, Literal(":"), Second>>],
      [fmt |-> "%b %d, %Y",
       items |-> <<ShortMonthName, Space, Day, Literal(","), Space, Year>>],
      [fmt |-> "%B %d, %Y",
       items |-> <<LongMonthName, Space, Day, Literal(","), Space, Year>>],
      [fmt |-> "%Y",
       items |-> <<Year>>],
      [fmt |-> "%Y-%m",
       items |-> <<Year, Literal("-"), Month>>],
      [fmt |-> "%Y/%m",
       items |-> <<Year, Literal("/"), Month>>],
      [fmt |-> "%b %Y",
       items |-> <<ShortMonthName, Space, Year>>],
      [fmt |-> "%B %Y",
       items |-> <<LongMonthName, Space, Year>>],
      [fmt |-> "%m-%Y",
       items |-> <<Month, Literal("-"), Year>>]>>

\* the closure given to find_map: the exact parse, then the partial-date arms: a
\* year alone, or "<text>-01" under %Y-%m-%d, "01 <text>" under %d %B %Y and
\* under %d %b %Y
DateUnderFormat(trimmed_value, format) ==
    or(parse_from_str(trimmed_value, format.items),
       IF format.fmt = "%Y"
       THEN and_then(parse_i32(trimmed_value), LAMBDA year : from_ymd_opt(year, 1, 1))
       ELSE IF format.fmt \in {"%Y-%m", "%Y/%m", "%b %Y", "%B %Y", "%m-%Y"}
       THEN or(parse_from_str(Replace(trimmed_value, "/", "-") \o <<"-", "0", "1">>,
                              <<Year, Literal("-"), Month, Literal("-"), Day>>),
               or(parse_from_str(<<"0", "1", " ">> \o trimmed_value,
                                 <<Day, Space, LongMonthName, Space, Year>>),
                  parse_from_str(<<"0", "1", " ">> \o trimmed_value,
                                 <<Day, Space, ShortMonthName, Space, Year>>)))
       ELSE None)

\* DATE_FORMATS.iter().find_map(..) from format i on: the first date found and the
\* format that gave it
RECURSIVE find_map(_, _)
find_map(trimmed_value, i) ==
    IF i > Len(DATE_FORMATS) THEN None
    ELSE or(and_then(DateUnderFormat(trimmed_value, DATE_FORMATS[i]),
                     LAMBDA date : Some([date |-> date, format |-> DATE_FORMATS[i].fmt])),
            find_map(trimmed_value, i + 1))

\* a number in at least `width` digits
Padded(n, width) ==
    [i \in 1..width |-> DigitChars[((n \div (10 ^ (width - i))) % 10) + 1]]

\* date.format("%Y-%m-%d").to_string(), for the years 0..9999
FormatDate(date) ==
    Padded(date.year, 4) \o <<"-">> \o Padded(date.month, 2) \o <<"-">> \o Padded(date.day, 2)

\* process_value, the PropertyDatatype::Date arm: [result, value, state]
process_value_Date(value, strict, state) ==
    LET date_result == find_map(Trim(value), 1) IN
    IF date_result # None
    THEN [result |-> "Ok", value |-> JsonString(FormatDate(unwrap(date_result).date)),
          state |-> state]
    ELSE IF strict
    THEN [result |-> "Err", value |-> [kind |-> "FailedToParseDate", value |-> value],
          state |-> state]
    ELSE [result |-> "Ok", value |-> JsonString(value),
          state |-> AddWarning(state, [kind |-> "FailedToParseDate", value |-> value])]

\* the cells of the date column in the files of the model
DateTexts ==
    {<<"2", "0", "2", "4", "-", "0", "6", "-", "1", "7">>,
     <<"J", "u", "n", " ", "1", "7", ",", " ", "2", "0", "2", "4">>,
     <<"J", "u", "n", "e", " ", "1", "7", ",", " ", "2", "0", "2", "4">>,
     <<"2", "0", "2", "4">>,
     <<"2", "0", "2", "4", "-", "0", "6">>,
     <<"2", "0", "2", "4", "/", "0", "6">>,
     <<"J", "u", "n", " ", "2", "0", "2", "4">>,
     <<"J", "u", "n", "e", " ", "2", "0", "2", "4">>,
     <<"0", "6", "-", "2", "0", "2", "4">>,
     <<"0", "6", "/", "1", "7", "/", "2", "0", "2", "4">>,
     <<"1", "7", "-", "0", "6", "-", "2", "0", "2", "4">>,
     <<"0", "1", "-", "0", "2", "-", "2", "0", "2", "4">>,
     <<"2", "0", "2", "4", "-", "0", "6", "-", "1", "7", " ", "1", "2", ":", "3", "0", ":", "0", "0">>,
     <<" ", "2", "0", "2", "4", "-", "0", "6", "-", "1", "7", " ">>,
     <<"2", "0", "2", "4", "-", "0", "2", "-", "3", "0">>,
     <<"s", "o", "o", "n">>}

MaxDateRows == 2

DateIdCells == {"", "1"}

InitDate ==
    /\ pc = "date"
    /\ is_strict \in BOOLEAN
    /\ is_namespace_iris \in BOOLEAN
    /\ instances = <<>>
    /\ rows = 0
    /\ last = NoRow
    /\ processing_state = NewState
    /\ IdleOutsideTable

\* process_simple_instance, one record of a basic step of class Order whose headers
\* are the identifier column and the Date column "due": a record without identifier
\* is reported and skipped; an empty cell is passed over; otherwise the cell is
\* coerced, a failure in strict mode is recorded and leaves final_values empty, and
\* the row's instance is stored
DateRow ==
    /\ pc = "date" /\ rows < MaxDateRows
    /\ rows' = rows + 1
    /\ \E id \in DateIdCells, text \in DateTexts \cup {<<>>} :
          LET processed == process_value_Date(text, is_strict, processing_state)
              state == IF processed.result = "Ok" THEN processed.state
                       ELSE AddError(processed.state, processed.value)
              final_values == IF processed.result = "Ok" THEN <<processed.value>> ELSE <<>>
              properties == IF text = <<>> THEN <<>>
                            ELSE [k \in {"due"} |-> JsonArray(final_values)]
              instance == [id |-> RowId("Order", id), type_ |-> <<IdString("Order")>>,
                           properties |-> properties]
          IN /\ last' = [kind |-> "date", id_cell |-> id, text |-> text,
                         id |-> RowId("Order", id), processed |-> processed,
                         table_before |-> instances, state_before |-> processing_state]
             /\ IF id = ""
                THEN /\ processing_state' = Report(processing_state, is_strict,
                                                   [kind |-> "MissingIdentifier"])
                     /\ UNCHANGED instances
                ELSE /\ processing_state' = IF text = <<>> THEN processing_state ELSE state
                     /\ \E table \in update_or_insert_instance(instances, instance) :
                           instances' = table
    /\ UNCHANGED <<pc, is_strict, is_namespace_iris>>
    /\ UNCHANGED outsideTable

NextDate == DateRow

SpecDate == InitDate /\ [][NextDate]_vars

\* what the named texts are to give
ExpectedDates ==
    {<<<<"2", "0", "2", "4", "-", "0", "6", "-", "1", "7">>, <<"2", "0", "2", "4", "-", "0", "6", "-", "1", "7">>>>,
     <<<<"J", "u", "n", " ", "1", "7", ",", " ", "2", "0", "2", "4">>, <<"2", "0", "2", "4", "-", "0", "6", "-", "1", "7">>>>,
     <<<<"2", "0", "2", "4">>, <<"2", "0", "2", "4", "-", "0", "1", "-", "0", "1">>>>,
     <<<<"2", "0", "2", "4", "-", "0", "6">>, <<"2", "0", "2", "4", "-", "0", "6", "-", "0", "1">>>>,
     <<<<"2", "0", "2", "4", "/", "0", "6">>, <<"2", "0", "2", "4", "-", "0", "6", "-", "0", "1">>>>,
     <<<<"J", "u", "n", " ", "2", "0", "2", "4">>, <<"2", "0", "2", "4", "-", "0", "6", "-", "0", "1">>>>,
     <<<<"J", "u", "n", "e", " ", "2", "0", "2", "4">>, <<"2", "0", "2", "4", "-", "0", "6", "-", "0", "1">>>>,
     <<<<"0", "6", "-", "2", "0", "2", "4">>, <<"2", "0", "2", "4", "-", "0", "6", "-", "0", "1">>>>,
     <<<<"0", "1", "-", "0", "2", "-", "2", "0", "2", "4">>, <<"2", "0", "2", "4", "-", "0", "1", "-", "0", "2">>>>}

\* texts no pattern of the list describes
UnparseableDates == {<<"s", "o", "o", "n">>, <<"2", "0", "2", "4", "-", "0", "2", "-", "3", "0">>}

\* a row with an identifier and a date cell has been taken
DateCoerced == last.kind = "date" /\ last.id_cell # "" /\ last.text # <<>>

\* C12 as claimed: the named full dates give their YYYY-MM-DD form, the first
\* pattern of the list that matches deciding (01-02-2024 is January 2nd); every
\* listed partial form gives the first day (of January for a bare year); a text that
\* no pattern describes gives, in lenient mode, the original text and exactly one
\* warning, and in strict mode an error and no change of the table by that row.
C12_DateCoercion ==
    DateCoerced =>
        /\ \A e \in ExpectedDates :
              last.text = e[1] =>
                  /\ last.processed.result = "Ok"
                  /\ last.processed.value = JsonString(e[2])
                  /\ processing_state = last.state_before
        /\ (last.text \in UnparseableDates /\ ~is_strict) =>
              /\ last.processed.result = "Ok"
              /\ last.processed.value = JsonString(last.text)
              /\ Len(processing_state.warnings) = Len(last.state_before.warnings) + 1
              /\ processing_state.errors = last.state_before.errors
        /\ (last.text \in UnparseableDates /\ is_strict) =>
              /\ Len(processing_state.errors) = Len(last.state_before.errors) + 1
              /\ instances = last.table_before

-----------------------------------------------------------------------------
(* The vocabulary step: VocabularyProcessor::process_vocabulary on the records of *)
(* a BasicVocabularyStep.  Here `vocabulary` holds the processor's VocabularyMap   *)
(* (classes, properties, identifiers) and its class_properties; the terms carry   *)
(* the fields update_with reads.                                                  *)

MaxVocabRows == 3

\* s.trim().to_lowercase() on the Type cells of the model
trim_to_lowercase(s) ==
    CASE s = "String" -> "string"
      [] s = "@id" -> "@id"
      [] s = " INTEGER" -> "integer"
      [] s = "bogus" -> "bogus"

\* impl FromStr for PropertyDatatype
from_str(s) ==
    LET t == trim_to_lowercase(s) IN
    CASE t \in {"primary key identifier", "@id"} -> [result |-> "Ok", datatype |-> "ID"]
      [] t \in {"foreign key reference", "uri"} -> [result |-> "Ok", datatype |-> "URI"]
      [] t = "picklist" -> [result |-> "Ok", datatype |-> "Picklist"]
      [] t \in {"string", ""} -> [result |-> "Ok", datatype |-> "String"]
      [] t = "float" -> [result |-> "Ok", datatype |-> "Decimal"]
      [] t = "integer" -> [result |-> "Ok", datatype |-> "Integer"]
      [] t \in {"date/time", "date"} -> [result |-> "Ok", datatype |-> "Date"]
      [] t = "boolean" -> [result |-> "Ok", datatype |-> "Boolean"]
      [] OTHER -> [result |-> "Err", datatype |-> t]

\* utils::map_xsd_type
map_xsd_type(csv_type) == from_str(csv_type)

\* impl Hash for IdOpt: the string that is hashed
hash(self) == IF self.tag = "String" THEN self.value ELSE self.original_id

Vacant == [found |-> FALSE]
Occupied(key) == [found |-> TRUE, key |-> key]

\* HashMap<IdOpt, _>::entry / get_mut: the keys that are == to id are found through
\* the hash; a key that is == but hashes another string is met only when the two
\* hashes happen to fall together, so without a key of the same hash the lookup
\* may find nothing
entry(map, id) ==
    LET candidates == {k \in DOMAIN map : eq(k, id)}
        same_hash == {k \in candidates : hash(k) = hash(id)}
    IN {Occupied(k) : k \in candidates} \cup (IF same_hash = {} THEN {Vacant} ELSE {})

\* self.vocabulary.identifiers.insert(key, property_term)
identifiers_insert(identifiers, key, term) == MapInsert(identifiers, key, term)

\* the text normalize().to_pascal_case() leaves as the final IRI of a class id
ClassName(id) == to_pascal_case(normalize_label_for_iri(final_iri(id)))

\* class_id.normalize().to_pascal_case().to_string(): the key of the identifiers map
IdentifierKey(id) ==
    IF id.tag = "String" THEN <<ClassName(id)>>
    ELSE <<id.original_id, " (to be replaced by ", ClassName(id), ")">>

\* utils::to_camel_case on the property ids of the model
to_camel_case(s) == CASE s = "p" -> "p"

\* the term process_class_term builds from the row
ClassTermOf(row) ==
    [type_ |-> "rdfs:Class", label |-> Some(row.class_name),
     comment |-> Some(row.class_description), domain |-> None, range |-> Some(<<>>),
     extra_items |-> <<>>]

\* VocabularyProcessor::process_class_term: the outcomes [result, vocabulary, key],
\* key being the key of `classes` whose term took the row
process_class_term(v, row) ==
    {IF e.found
     THEN LET u == update_with(v.classes[e.key], ClassTermOf(row), <<>>)
          IN [result |-> u.result, key |-> e.key,
              vocabulary |-> [v EXCEPT !.classes[e.key] = u.term]]
     ELSE [result |-> "Ok", key |-> row.class_id,
           vocabulary |-> [v EXCEPT !.classes = MapInsert(@, row.class_id, ClassTermOf(row))]]
       : e \in entry(v.classes, row.class_id)}

\* VocabularyProcessor::process_property_term for a row without target class: the
\* outcomes [result, vocabulary]
process_property_term(v, row) ==
    LET xsd_type == map_xsd_type(row.property_type)
        camel_name == IdString(to_camel_case(row.property_id))
        class_keys == {k \in DOMAIN v.classes : eq(k, row.class_id)}
        ids == IF class_keys = {} THEN {row.class_id} ELSE class_keys
    IN IF xsd_type.result = "Err" THEN {[result |-> "Err", vocabulary |-> v]}
       ELSE UNION {
            LET property_term ==
                    [type_ |-> "rdf:Property", label |-> Some(row.property_name),
                     comment |-> Some(""),
                     domain |-> Some(<<expand_iri_with_base(
                                          model_base_iri, <<ClassName(new_or_existing_class_id)>>)>>),
                     range |-> Some(<<xsd_type.datatype>>), extra_items |-> <<>>]
            IN IF xsd_type.datatype = "ID"
               THEN {[result |-> "Ok",
                      vocabulary |-> [v EXCEPT !.identifiers =
                          identifiers_insert(@, IdentifierKey(row.class_id), property_term)]]}
               ELSE LET u == IF camel_name \in DOMAIN v.properties
                             THEN update_with(v.properties[camel_name], property_term, <<>>)
                             ELSE [result |-> "Ok", term |-> property_term]
                        v1 == [v EXCEPT !.properties = MapInsert(@, camel_name, u.term)]
                    IN IF u.result # "Ok" THEN {[result |-> u.result, vocabulary |-> v1]}
                       ELSE {[result |-> "Ok",
                              vocabulary |-> [v1 EXCEPT !.class_properties =
                                  IF e.found THEN [@ EXCEPT ![e.key] = Append(@, final_iri(camel_name))]
                                  ELSE MapInsert(@, row.class_id, <<final_iri(camel_name)>>)]]
                                : e \in entry(v.class_properties, row.class_id)}
              : new_or_existing_class_id \in ids}

\* the rows of the files of the model, as extract_values hands them on (a record the
\* CSV reader rejects and a record without class id are rows too)
VocabRowValues ==
    {[kind |-> "unreadable"], [kind |-> "no_class_id"]}
    \cup [kind : {"row"}, class_id : {IdString("color")}, class_name : {"", "L1", "L2"},
          class_description : {""}, property_id : {"p"}, property_name : {"N1"},
          property_type : {"String"}]
    \cup [kind : {"row"}, class_id : {ReplacementMap("color", "Color"), IdString("Color")},
          class_name : {""}, class_description : {""}, property_id : {"p"},
          property_name : {"N1"}, property_type : {"String"}]
    \cup [kind : {"row"}, class_id : {IdString("color")}, class_name : {""},
          class_description : {""}, property_id : {"p"}, property_name : {"N1", "N2"},
          property_type : {"@id", " INTEGER", "bogus"}]

\* one turn of the row loop of process_vocabulary: the outcomes [vocabulary, state,
\* issue, key], issue telling which arm reported and key which class term was built
\* or merged into
VocabRowOutcomes(v, state, strict, row) ==
    IF row.kind = "unreadable"
    THEN {[vocabulary |-> v, issue |-> "record", key |-> None,
           state |-> Report(state, strict, [kind |-> "FailedToReadRecord"])]}
    ELSE IF row.kind = "no_class_id"
    THEN {[vocabulary |-> v, issue |-> "values", key |-> None,
           state |-> Report(state, strict, [kind |-> "MissingClassId"])]}
    ELSE UNION {
         IF c.result # "Ok"
         THEN {[vocabulary |-> c.vocabulary, issue |-> "class", key |-> Some(c.key),
                state |-> Report(state, strict, [kind |-> "ClassTerm", row |-> row])]}
         ELSE {IF p.result # "Ok"
               THEN [vocabulary |-> p.vocabulary, issue |-> "property", key |-> Some(c.key),
                     state |-> Report(state, strict, [kind |-> "PropertyTerm", row |-> row])]
               ELSE [vocabulary |-> p.vocabulary, issue |-> "none", key |-> Some(c.key),
                     state |-> state]
                 : p \in process_property_term(c.vocabulary, row)}
           : c \in process_class_term(v, row)}

\* "Update class terms with their properties", the keys of class_properties taken
\* in the given order: the maps `classes` may be afterwards
RECURSIVE UpdateClassRanges(_, _, _, _)
UpdateClassRanges(classes, class_properties, order, i) ==
    IF i > Len(order) THEN {classes}
    ELSE LET class_id == order[i]
             range == [j \in DOMAIN class_properties[class_id] |->
                          [uri |-> expand_iri_with_base(model_base_iri,
                                                        <<class_properties[class_id][j]>>)]]
         IN UNION {UpdateClassRanges(
                       IF e.found THEN [classes EXCEPT ![e.key].range = Some(range)]
                       ELSE classes,
                       class_properties, order, i + 1)
                     : e \in entry(classes, class_id)}

NewVocabulary ==
    [classes |-> <<>>, properties |-> <<>>, identifiers |-> <<>>, class_properties |-> <<>>]

InitVocabulary ==
    /\ pc = "vocabulary"
    /\ is_strict \in BOOLEAN
    /\ processing_state = NewState
    /\ manifest_base_iri = <<>>
    /\ model_base_iri = <<"http://example.org/model/">>
    /\ vocabulary = NewVocabulary
    /\ rows = 0
    /\ last = NoRow
    /\ is_namespace_iris = FALSE
    /\ instances = <<>>
    /\ IdleOutsidePicklist

\* the labels each class term has taken from the records so far (kept for the
\* claims): a record whose class term was built or merged without conflict adds
\* its label to the labels of that term
AcceptedLabels(before, o, row) ==
    IF o.key = None \/ o.issue = "class" THEN before
    ELSE LET key == unwrap(o.key)
         IN MapInsert(before, key,
                      (IF key \in DOMAIN before THEN before[key] ELSE {}) \cup {row.class_name})

\* one record of the step
VocabularyRow ==
    /\ pc = "vocabulary" /\ rows < MaxVocabRows
    /\ rows' = rows + 1
    /\ \E row \in VocabRowValues :
          \E o \in VocabRowOutcomes(vocabulary, processing_state, is_strict, row) :
             /\ vocabulary' = o.vocabulary
             /\ processing_state' = o.state
             /\ last' = [kind |-> "vocabulary", row |-> row, issue |-> o.issue,
                         vocabulary_before |-> vocabulary,
                         state_before |-> processing_state,
                         key |-> o.key,
                         accepted |-> AcceptedLabels(
                             IF last.kind = "vocabulary" THEN last.accepted ELSE <<>>,
                             o, row)]
    /\ UNCHANGED <<pc, is_strict, manifest_base_iri, model_base_iri, is_namespace_iris,
                   instances>>
    /\ UNCHANGED outsidePicklist

\* the end of process_vocabulary: no property of the model has a Picklist range, so
\* no rdfs:label property is added; the class terms get their properties as range
\* and the state is handed back
EndVocabularyStep ==
    /\ pc = "vocabulary"
    /\ pc' = "vocabulary_done"
    /\ \E order \in Orders(DOMAIN vocabulary.class_properties) :
          \E classes \in UpdateClassRanges(vocabulary.classes, vocabulary.class_properties,
                                           order, 1) :
             vocabulary' = [vocabulary EXCEPT !.classes = classes]
    /\ UNCHANGED <<is_strict, processing_state, manifest_base_iri, model_base_iri,
                   is_namespace_iris, instances, rows, last>>
    /\ UNCHANGED outsidePicklist

NextVocabulary == VocabularyRow \/ EndVocabularyStep

SpecVocabulary == InitVocabulary /\ [][NextVocabulary]_vars

\* the last record was read, gave a class id, and its class term was taken
RowReachedProperty ==
    /\ last.kind = "vocabulary"
    /\ last.row.kind = "row"
    /\ last.issue # "class"

\* C13: a record whose Type text is outside the synonym table makes the vocabulary
\* step report an error, in strict and in lenient mode alike, and no property term
\* (and no identifier term) is created from it
C13_UnknownTypeIsError ==
    (RowReachedProperty /\ from_str(last.row.property_type).result = "Err")
        => /\ Len(processing_state.errors) = Len(last.state_before.errors) + 1
           /\ processing_state.warnings = last.state_before.warnings
           /\ vocabulary.properties = last.vocabulary_before.properties
           /\ vocabulary.identifiers = last.vocabulary_before.identifiers

\* the maps of the VocabularyMap
MapsOf(v) == <<v.classes, v.properties, v.identifiers>>

\* C14: in strict mode an issue met inside a model step stops the step: once the step
\* has recorded an error, no later record of that step changes the Vocabulary Map
C14_StrictIssueAbortsStep ==
    (is_strict /\ pc = "vocabulary" /\ last.kind = "vocabulary"
               /\ last.state_before.errors # <<>>)
        => MapsOf(vocabulary) = MapsOf(last.vocabulary_before)

\* the last record named, by a plain class id, a class stored under a
\* ReplacementMap key: by its original id or by its replacement id
NamesMappedClass(field) ==
    /\ last.kind = "vocabulary"
    /\ last.row.kind = "row"
    /\ last.row.class_id.tag = "String"
    /\ \E k \in DOMAIN last.vocabulary_before.classes :
          /\ k.tag = "ReplacementMap"
          /\ last.row.class_id.value = k[field]

\* C17: a class stored under a ReplacementMap key is found by its original id and
\* by its replacement id alike: a later record naming it by either value merges
\* into the stored term and creates no second term
C17_MappedKeyFoundByEitherForm ==
    (NamesMappedClass("original_id") \/ NamesMappedClass("replacement_id"))
        => DOMAIN vocabulary.classes = DOMAIN last.vocabulary_before.classes

\* C18: the labels one class term has taken are never contradictory: all the
\* non-empty labels accepted for one term are equal, in whatever order empty and
\* non-empty labels arrived
C18_AcceptedLabelsAgree ==
    last.kind = "vocabulary" =>
        \A k \in DOMAIN last.accepted :
            Cardinality(last.accepted[k] \ {""}) <= 1

\* the last record gave an Identifier-typed property for a class that already had an
\* identifier term, with a label that conflicts with the stored one
ConflictingIdentifierRow ==
    /\ RowReachedProperty
    /\ from_str(last.row.property_type) = [result |-> "Ok", datatype |-> "ID"]
    /\ IdentifierKey(last.row.class_id) \in DOMAIN last.vocabulary_before.identifiers
    /\ are_conflicting(
           last.vocabulary_before.identifiers[IdentifierKey(last.row.class_id)].label,
           Some(last.row.property_name))

\* C19: the identifier term of a class is never overwritten by last write: a record
\* with an Identifier-typed property whose label conflicts with the stored
\* identifier term of the class is a conflict, and the stored term stays
C19_IdentifierTermIsMerged ==
    ConflictingIdentifierRow
        => /\ last.issue = "property"
           /\ vocabulary.identifiers = last.vocabulary_before.identifiers

-----------------------------------------------------------------------------
(* ProcessingOutcome: the state of the command line and the state of the processor *)
(* reduced to outcomes and merged, as process_command does.                        *)

MaxMessages == 2

Messages == {"m1", "m2"}

\* the ProcessingStates of the model
ProcessingStates ==
    [warnings : SeqsUpTo(Messages, MaxMessages), errors : SeqsUpTo(Messages, MaxMessages)]

\* no outcome yet
NoOutcome == [tag |-> "none"]

Success == [tag |-> "Success"]
SuccessWithWarnings(warnings) == [tag |-> "SuccessWithWarnings", warnings |-> warnings]
Failure(errors, warnings) == [tag |-> "Failure", errors |-> errors, warnings |-> warnings]

\* a plausible slip: warnings are looked at before errors
from_state_warnings_first(state) ==
    IF state.errors = <<>> /\ state.warnings = <<>> THEN Success
    ELSE IF state.warnings # <<>> THEN SuccessWithWarnings(state.warnings)
    ELSE Failure(state.errors, state.warnings)

\* ProcessingOutcome::from_state
from_state(state) ==
    IF state.errors = <<>> /\ state.warnings = <<>> THEN Success
    ELSE IF state.errors # <<>> THEN Failure(state.errors, state.warnings)
    ELSE SuccessWithWarnings(state.warnings)

\* ProcessingOutcome::take_messages
take_messages(self) ==
    CASE self.tag = "Success" -> [errors |-> <<>>, warnings |-> <<>>]
      [] self.tag = "SuccessWithWarnings" -> [errors |-> <<>>, warnings |-> self.warnings]
      [] self.tag = "Failure" -> [errors |-> self.errors, warnings |-> self.warnings]

\* ProcessingOutcome::merge_outcome
merge_outcome(self, other) ==
    LET others == take_messages(other)
        mine == take_messages(self)
    IN from_state([warnings |-> mine.warnings \o others.warnings,
                   errors |-> mine.errors \o others.errors])

InitOutcome ==
    /\ pc = "outcome"
    /\ is_strict = Idle
    /\ processing_state \in ProcessingStates
    /\ processed_state \in ProcessingStates
    /\ proto_outcome = NoOutcome
    /\ processing_outcome = NoOutcome
    /\ final_outcome = NoOutcome
    /\ IdleOutsideOutcome

\* process_command: let proto_outcome = ProcessingOutcome::from_state(processing_state)
ReduceProto ==
    /\ pc = "outcome"
    /\ proto_outcome = NoOutcome
    /\ proto_outcome' = from_state(processing_state)
    /\ UNCHANGED <<pc, processing_state, processed_state, processing_outcome, final_outcome>>
    /\ UNCHANGED outsideOutcome

\* the end of Processor::process: the processor's state reduced to the outcome it
\* returns
ReduceProcessed ==
    /\ pc = "outcome"
    /\ proto_outcome # NoOutcome
    /\ processing_outcome = NoOutcome
    /\ processing_outcome' = from_state(processed_state)
    /\ UNCHANGED <<pc, processing_state, processed_state, proto_outcome, final_outcome>>
    /\ UNCHANGED outsideOutcome

\* process_command: let final_outcome = proto_outcome.merge_outcome(processing_outcome)
MergeOutcomes ==
    /\ pc = "outcome"
    /\ processing_outcome # NoOutcome
    /\ final_outcome' = merge_outcome(proto_outcome, processing_outcome)
    /\ pc' = "reported"
    /\ UNCHANGED <<processing_state, processed_state, proto_outcome, processing_outcome>>
    /\ UNCHANGED outsideOutcome

NextOutcome == ReduceProto \/ ReduceProcessed \/ MergeOutcomes

SpecOutcome == InitOutcome /\ [][NextOutcome]_vars

\* what the claim says from_state gives
ExpectedOutcome(state) ==
    IF state.warnings = <<>> /\ state.errors = <<>> THEN Success
    ELSE IF Len(state.errors) >= 1 THEN Failure(state.errors, state.warnings)
    ELSE SuccessWithWarnings(state.warnings)

\* C16: from_state gives Success exactly for a state without warning and error,
\* Failure with all errors and warnings exactly for a state with an error, and
\* SuccessWithWarnings otherwise; merge_outcome of two outcomes is from_state of
\* their errors and of their warnings put together, the first operand's first
C16_OutcomeOfState ==
    /\ proto_outcome # NoOutcome =>
          /\ proto_outcome = ExpectedOutcome(processing_state)
          /\ proto_outcome.tag = "Success"
                <=> (processing_state.warnings = <<>> /\ processing_state.errors = <<>>)
          /\ proto_outcome.tag = "Failure" <=> processing_state.errors # <<>>
    /\ processing_outcome # NoOutcome => processing_outcome = ExpectedOutcome(processed_state)
    /\ final_outcome # NoOutcome =>
          final_outcome = ExpectedOutcome(
              [warnings |-> processing_state.warnings \o processed_state.warnings,
               errors |-> processing_state.errors \o processed_state.errors])

C16_Witness ==
    /\ final_outcome # NoOutcome
    /\ final_outcome.tag = "Failure"
    /\ proto_outcome.tag = "SuccessWithWarnings"
    /\ processing_outcome.tag = "Failure"
    /\ final_outcome.warnings = <<"m1", "m2", "m2">>
    /\ final_outcome.errors = <<"m2", "m1">>

-----------------------------------------------------------------------------
(* The steps of a run together: the processor's loop over the steps, and the row *)
(* loops of a model step and of the instance steps.                              *)

NextSteps ==
    NextRun \/ NextVocabulary \/ NextTable \/ NextPicklist \/ NextPivot \/ NextDate

InitSteps ==
    InitRun \/ InitVocabulary \/ InitTable \/ InitPicklist \/ InitPivot \/ InitDate

SpecSteps == InitSteps /\ [][NextSteps]_vars

\* C15: in lenient mode no issue raised while a model step or an instance step runs
\* is recorded as an error: the errors stay empty, so the state never reduces to
\* the Failure outcome, and a record of a model step that raised an issue added
\* one warning
C15_LenientNeverFails ==
    ~is_strict =>
        /\ processing_state.errors = <<>>
        /\ from_state(processing_state).tag # "Failure"
        /\ (pc \in {"vocabulary", "vocabulary_done"} /\ last.kind = "vocabulary"
                /\ last.issue # "none") =>
              Len(processing_state.warnings) = Len(last.state_before.warnings) + 1

\* lenient mode, a model step: a record raised an issue and a later record still
\* changed the Vocabulary Map
C15_Witness ==
    /\ ~is_strict
    /\ pc = "vocabulary"
    /\ last.kind = "vocabulary"
    /\ last.state_before.warnings # <<>>
    /\ last.issue = "none"
    /\ MapsOf(vocabulary) # MapsOf(last.vocabulary_before)
    /\ from_state(processing_state).tag = "SuccessWithWarnings"

-----------------------------------------------------------------------------
(* The instance phase on the VocabularyMap the model phase has built: the records *)
(* of basic, picklist, subclass and properties-as-rows steps.  Here `vocabulary`  *)
(* is the VocabularyMap (classes, properties, identifiers) the instance builder   *)
(* holds, and pc = "panicked" is the process ended by a panic.                    *)

MaxPhaseRows == 3

\* a class term as the end of the model phase leaves it
PhaseClassTerm(label) ==
    [type_ |-> "rdfs:Class", label |-> Some(label), comment |-> Some(""),
     domain |-> None, range |-> Some(<<>>), extra_items |-> <<>>, one_of |-> None]

\* a property term, and the identifier term of a class
PhasePropertyTerm(label, datatype) ==
    [type_ |-> "rdf:Property", label |-> Some(label), comment |-> Some(""),
     domain |-> Some(<<"Order">>), range |-> Some(<<datatype>>),
     extra_items |-> <<>>, one_of |-> None]

\* the VocabularyMaps of the model: the picklist class Color and the subclass Rush
\* known or not, the property p known or not, an identifier column for both classes
PhaseVocabularies ==
    {[classes |-> [id \in {IdString(<<c>>) : c \in cs} |-> PhaseClassTerm(id.value[1])],
      properties |-> [id \in {IdString(p) : p \in ps} |-> PhasePropertyTerm(id.value, "String")],
      identifiers |-> [c \in {"Order", "Color"} |-> PhasePropertyTerm("id", "ID")]]
        : cs \in SUBSET {"Color", "Rush"}, ps \in SUBSET {"p"}}

\* VocabularyMap::get_identifier_label
get_identifier_label(v, class_name) ==
    IF class_name \in DOMAIN v.identifiers
    THEN Some(unwrap(v.identifiers[class_name].label))
    ELSE None

InitPhase ==
    /\ pc = "picklists"
    /\ is_strict \in BOOLEAN
    /\ is_namespace_iris = FALSE
    /\ manifest_base_iri \in BaseIris
    /\ model_base_iri = <<>>
    /\ vocabulary \in PhaseVocabularies
    /\ instances = <<>>
    /\ rows = 0
    /\ last = NoRow
    /\ processing_state = NewState
    /\ IdleOutsidePicklist

\* kept for the claims from record to record: the values the properties records
\* appended, per identifier and property and in row order, and the identifiers the
\* records of the other steps wrote
PhaseHistory ==
    IF last = NoRow THEN [appended |-> <<>>, touched |-> {}]
    ELSE [appended |-> last.appended, touched |-> last.touched]

\* what a record did, kept for the claims
PhaseEffect(kind, fields) ==
    fields @@ [kind |-> kind, vocabulary_before |-> vocabulary,
               instances_before |-> instances, state_before |-> processing_state,
               appended |-> PhaseHistory.appended, touched |-> PhaseHistory.touched]

\* a record that is reported and skipped: an error in strict mode (recorded by the
\* row loop, or returned to Processor::process_instance_step which records it), a
\* warning otherwise
PhaseSkip(kind, message) ==
    /\ processing_state' = Report(processing_state, is_strict, [kind |-> message])
    /\ last' = PhaseEffect("skipped", [step |-> kind])
    /\ UNCHANGED <<pc, instances, vocabulary>>

\* panic!(..): the process ends
PhasePanic(kind, fields) ==
    /\ pc' = "panicked"
    /\ last' = PhaseEffect(kind, fields)
    /\ UNCHANGED <<processing_state, instances, vocabulary>>

\* process_simple_instance, one record of a basic step of class Order with a String
\* column p
PhaseBasicRow ==
    /\ pc = "phase" /\ rows < MaxPhaseRows
    /\ get_identifier_label(vocabulary, "Order") # None
    /\ rows' = rows + 1
    /\ \E id \in RawIds \cup {""}, value \in {"", "x"} :
          IF id = "" THEN PhaseSkip("basic", "MissingIdentifier")
          ELSE LET instance ==
                       [id |-> RowId("Order", id), type_ |-> <<IdString("Order")>>,
                        properties |-> [k \in (IF value = "" THEN {} ELSE {"p"}) |->
                                           JsonArray(<<JsonString(value)>>)]]
               IN \E table \in update_or_insert_instance(instances, instance) :
                     /\ instances' = table
                     /\ last' = PhaseEffect("basic",
                                    [id |-> instance.id,
                                     touched |-> PhaseHistory.touched \cup {instance.id}])
                     /\ UNCHANGED <<pc, processing_state, vocabulary>>
    /\ UNCHANGED <<is_strict, is_namespace_iris, manifest_base_iri, model_base_iri>>
    /\ UNCHANGED outsidePicklist

\* process_simple_instance, one record of the picklist step of class Color: the
\* instance is stored, then its id is registered as a value of the class
PhasePicklistRow ==
    /\ pc = "picklists" /\ rows < MaxPhaseRows
    /\ get_identifier_label(vocabulary, "Color") # None
    /\ rows' = rows + 1
    /\ \E id \in PicklistValues \cup {""} :
          IF id = "" THEN PhaseSkip("picklist", "MissingIdentifier")
          ELSE LET instance == [id |-> RowId("Color", id), type_ |-> <<IdString("Color")>>,
                                properties |-> <<>>]
                   registered == update_or_insert_picklist_instance(
                                     vocabulary.classes, "Color",
                                     with_base_iri(IdString(instance.id), manifest_base_iri))
               IN \E table \in update_or_insert_instance(instances, instance) :
                     /\ instances' = table
                     /\ last' = PhaseEffect("picklist",
                                    [id |-> instance.id,
                                     touched |-> PhaseHistory.touched \cup {instance.id}])
                     /\ IF registered = None
                        THEN /\ processing_state' =
                                    Report(processing_state, is_strict,
                                           [kind |-> "PicklistClassNotFound"])
                             /\ UNCHANGED vocabulary
                        ELSE /\ vocabulary' = [vocabulary EXCEPT !.classes = unwrap(registered)]
                             /\ UNCHANGED processing_state
                     /\ UNCHANGED pc
    /\ UNCHANGED <<is_strict, is_namespace_iris, manifest_base_iri, model_base_iri>>
    /\ UNCHANGED outsidePicklist

\* Processor::process: the picklist steps come first, the other steps follow
PhaseOtherSteps ==
    /\ pc = "picklists"
    /\ pc' = "phase"
    /\ UNCHANGED <<is_strict, processing_state, instVars, vocabVars>>
    /\ UNCHANGED outsidePicklist

\* the find_map of process_subclass_instance and of process_properties_instance over
\* the keys of a map of the vocabulary: the keys the raw cell may be resolved to
\* (the text of a class id is one piece, the text of a property id is a string)
find_map_key(map, text) ==
    {id \in DOMAIN map :
        \/ id.tag = "String" /\ id.value = text
        \/ id.tag = "ReplacementMap" /\ id.original_id = text}

\* process_subclass_instance, one record of a subclass step of parent class Order
\* whose columns are id, the subclass reference and p
PhaseSubclassRow ==
    /\ pc = "phase" /\ rows < MaxPhaseRows
    /\ get_identifier_label(vocabulary, "Order") # None
    /\ rows' = rows + 1
    /\ \E id \in RawIds \cup {""}, subclass_ref \in {"", "Rush", "rush order"}, value \in {"", "x"} :
          IF id = "" THEN PhaseSkip("subclass", "MissingIdentifier")
          ELSE IF subclass_ref = "" THEN PhaseSkip("subclass", "MissingSubclassReference")
          ELSE
          LET found == find_map_key(vocabulary.classes, <<subclass_ref>>)
              cells == [subclass_ref |-> subclass_ref, value |-> value,
                        known |-> found # {}, id |-> RowId("Order", id),
                        touched |-> PhaseHistory.touched \cup {RowId("Order", id)}]
          IN IF found = {} /\ is_strict
             THEN PhasePanic("subclass", cells)
             ELSE \E key \in (IF found = {} THEN {IdString(<<subclass_ref>>)} ELSE found) :
                  LET resolved == IdOpt_to_pascal_case(IdOpt_normalize(key))
                      instance ==
                          [id |-> RowId("Order", id),
                           type_ |-> <<IdString("Order"), resolved>>,
                           properties |-> [k \in (IF value = "" THEN {} ELSE {"p"}) |->
                                              JsonString(value)]]
                  IN \E table \in update_or_insert_instance(instances, instance) :
                        /\ instances' = table
                        /\ processing_state' =
                              IF found = {}
                              THEN AddWarning(processing_state,
                                              [kind |-> "SubclassReferenceNotFound",
                                               value |-> subclass_ref])
                              ELSE processing_state
                        /\ last' = PhaseEffect("subclass", cells)
                        /\ UNCHANGED <<pc, vocabulary>>
    /\ UNCHANGED <<is_strict, is_namespace_iris, manifest_base_iri, model_base_iri>>
    /\ UNCHANGED outsidePicklist

\* the rows of the properties step so far, per identifier and property (kept for the
\* claims): the values in row order
Appended(id, key, value) ==
    LET before == PhaseHistory.appended
        at == <<id, key>>
    IN MapInsert(before, at,
                 Append(IF at \in DOMAIN before THEN before[at] ELSE <<>>, value))

\* process_properties_instance, one record of a properties step of class Order
PhasePropertiesRow ==
    /\ pc = "phase" /\ rows < MaxPhaseRows
    /\ get_identifier_label(vocabulary, "Order") # None
    /\ rows' = rows + 1
    /\ \E id \in RawIds \cup {""}, property_cell \in {"", "p", "q"},
          property_value \in {"", "x", "y"} :
          IF id = "" THEN PhaseSkip("properties", "MissingIdentifier")
          ELSE IF property_cell = "" THEN PhaseSkip("properties", "MissingPropertyId")
          ELSE
          LET found == find_map_key(vocabulary.properties, property_cell)
              entity_id == RowId("Order", id)
              cells == [property_cell |-> property_cell, value |-> property_value,
                        known |-> found # {}, id |-> entity_id]
              state == IF found = {}
                       THEN AddWarning(processing_state,
                                       [kind |-> "PropertyIdNotFound", value |-> property_cell])
                       ELSE processing_state
          IN IF found = {} /\ is_strict
             THEN PhasePanic("properties", cells)
             ELSE IF property_value = ""
             THEN /\ processing_state' =
                        Report(state, is_strict, [kind |-> "MissingPropertyValue"])
                  /\ last' = PhaseEffect("skipped", [step |-> "properties"] @@ cells)
                  /\ UNCHANGED <<pc, instances, vocabulary>>
             ELSE \E property_id \in (IF found = {} THEN {IdString(property_cell)} ELSE found) :
                  LET key == final_iri(property_id)
                      instance == [id |-> entity_id, type_ |-> <<IdString("Order")>>,
                                   properties |-> [k \in {key} |-> JsonString(property_value)]]
                  IN /\ instances' =
                           IF entity_id \in DOMAIN instances
                           THEN MapInsert(instances, entity_id,
                                    AppendProperty(instances[entity_id], key, property_value))
                           ELSE MapInsert(instances, entity_id, instance)
                     /\ processing_state' = state
                     /\ last' = PhaseEffect("properties",
                                    cells @@ [key |-> key,
                                              appended |-> Appended(entity_id, key,
                                                                    property_value)])
                     /\ UNCHANGED <<pc, vocabulary>>
    /\ UNCHANGED <<is_strict, is_namespace_iris, manifest_base_iri, model_base_iri>>
    /\ UNCHANGED outsidePicklist

NextPhase ==
    PhasePicklistRow \/ PhaseOtherSteps \/ PhaseBasicRow \/ PhaseSubclassRow
        \/ PhasePropertiesRow

SpecPhase == InitPhase /\ [][NextPhase]_vars

\* a picklist record changed nothing but the value lists, and those only by
\* appending
OnlyEnumerationsGrew(before, after) ==
    /\ after.properties = before.properties
    /\ after.identifiers = before.identifiers
    /\ DOMAIN after.classes = DOMAIN before.classes
    /\ \A id \in DOMAIN before.classes :
          LET old == before.classes[id]
              new == after.classes[id]
          IN /\ [new EXCEPT !.one_of = old.one_of] = old
             /\ IsPrefix(IF old.one_of = None THEN <<>> ELSE unwrap(old.one_of),
                         IF new.one_of = None THEN <<>> ELSE unwrap(new.one_of))

\* C21: a record of a basic, subclass or properties step (imported, skipped, or
\* ending in a panic) leaves the VocabularyMap - classes, properties, identifiers -
\* exactly as it was; a record of a picklist step changes nothing in it other than
\* appending ids to the value lists of classes
C21_VocabularyFrozenButEnumerations ==
    last # NoRow =>
        IF last.kind = "picklist"
        THEN OnlyEnumerationsGrew(last.vocabulary_before, vocabulary)
        ELSE vocabulary = last.vocabulary_before

\* after two picklist records were registered, a properties record of another step
\* was imported with the fallback for an unknown property
C21_Witness ==
    /\ last.kind = "properties"
    /\ ~last.known
    /\ instances # last.instances_before
    /\ \E id \in DOMAIN vocabulary.classes :
          /\ vocabulary.classes[id].one_of # None
          /\ Len(unwrap(vocabulary.classes[id].one_of)) = 2

\* the class a subclass reference stands for: the normalized, Pascal-case reference
ResolvedSubclass(subclass_ref) == IdOpt_to_pascal_case(IdOpt_normalize(IdString(<<subclass_ref>>)))

\* the last record was a record of the subclass step with an identifier and a
\* subclass reference
SubclassRecord == last # NoRow /\ last.kind = "subclass"

\* what C23 says of a record the step got through
SubclassRecordImported ==
    /\ last.id \notin DOMAIN last.instances_before =>
          /\ instances[last.id].type_
                = <<IdString("Order"), ResolvedSubclass(last.subclass_ref)>>
          /\ instances[last.id].properties
                = [k \in (IF last.value = "" THEN {} ELSE {"p"}) |-> JsonString(last.value)]
    /\ ~last.known =>
          /\ Len(processing_state.warnings) = Len(last.state_before.warnings) + 1
          /\ processing_state.errors = last.state_before.errors
    /\ last.known => processing_state = last.state_before

\* C23: a record of a subclass step creates an instance with exactly two types, the
\* parent type of the step and then the class resolved from the subclass-reference
\* column; whenever the reference matches no class identifier, the class is
\* synthesized from the normalized raw value and a warning is recorded; the other
\* columns are copied as plain strings
C23_SubclassTypesAndFallback ==
    SubclassRecord => (pc # "panicked" /\ SubclassRecordImported)

\* the same, outside the records that end in a panic
C23_WhereNoPanic ==
    (SubclassRecord /\ pc # "panicked") => SubclassRecordImported

\* the step's fallback was taken for a new instance
C23_Fallback ==
    /\ SubclassRecord
    /\ ~last.known
    /\ pc # "panicked"
    /\ last.id \notin DOMAIN last.instances_before
    /\ last.value # ""

\* the last record was a record of the properties step with an identifier and a
\* property name
PropertiesRecord ==
    last # NoRow /\ "property_cell" \in DOMAIN last

\* the property of every instance only the properties step wrote holds the values
\* of the step's records for it: one scalar, or the array of them in row order
AppendedInRowOrder ==
    last # NoRow =>
        \A at \in DOMAIN last.appended :
            at[1] \notin last.touched =>
                LET values == last.appended[at]
                    held == instances[at[1]].properties[at[2]]
                IN IF Len(values) = 1 THEN held = JsonString(values[1])
                   ELSE held = JsonArray([i \in DOMAIN values |-> JsonString(values[i])])

\* an unknown property name is replaced by a reference made from the raw name, with
\* a warning
UnknownPropertySynthesized ==
    (PropertiesRecord /\ ~last.known) =>
        /\ Len(processing_state.warnings) > Len(last.state_before.warnings)
        /\ last.kind = "properties" => last.key = last.property_cell

\* C24: a properties-as-rows step appends without deduplicating: after n records
\* naming the same identifier and the same property, the property holds a single
\* scalar when n = 1 and otherwise the array of all n values in row order, repeated
\* values kept; a property name that matches no property of the vocabulary is
\* replaced by a synthesized reference and a warning is recorded
C24_PropertiesAppendInRowOrder ==
    /\ AppendedInRowOrder
    /\ PropertiesRecord => pc # "panicked"
    /\ UnknownPropertySynthesized

\* the same, outside the records that end in a panic
C24_WhereNoPanic ==
    /\ AppendedInRowOrder
    /\ pc # "panicked" => UnknownPropertySynthesized

\* three records of one property, a value repeated
C24_Repeated ==
    /\ last # NoRow
    /\ \E at \in DOMAIN last.appended :
          /\ at[1] \notin last.touched
          /\ Len(last.appended[at]) = 3
          /\ last.appended[at][1] = last.appended[at][3]

-----------------------------------------------------------------------------
(* Integer, Decimal and Boolean coercion: process_value on the cells of a basic  *)
(* step.  A text is the sequence of its characters.                              *)

MaxCoerceRows == 2

JsonBool(b) == [kind |-> "Bool", b |-> b]

\* serde_json::Value::Number holding an f64
JsonFloat(num) == [kind |-> "Number", f |-> num]

\* value.replace(['$', '%', ','], "")
replace_currency_chars(value) == SelectSeq(value, LAMBDA c : c \notin {"$", "%", ","})

UpperChars ==
    <<"A", "B", "C", "D", "E", "F", "G", "H", "I", "J", "K", "L", "M",
      "N", "O", "P", "Q", "R", "S", "T", "U", "V", "W", "X", "Y", "Z">>
LowerChars ==
    <<"a", "b", "c", "d", "e", "f", "g", "h", "i", "j", "k", "l", "m",
      "n", "o", "p", "q", "r", "s", "t", "u", "v", "w", "x", "y", "z">>

\* str::to_lowercase on ASCII text
to_lowercase(s) ==
    [i \in DOMAIN s |->
        IF \E j \in DOMAIN UpperChars : UpperChars[j] = s[i]
        THEN LowerChars[CHOOSE j \in DOMAIN UpperChars : UpperChars[j] = s[i]]
        ELSE s[i]]

\* the digits of a text made of digits only, as Some(number); None otherwise
digits_value(s) ==
    and_then(ScanNumber(s, Len(s), 0, 0),
             LAMBDA read : IF read.rest = <<>> THEN Some(read.n) ELSE None)

\* str::parse::<i64>() for texts of fewer than 19 digits: an optional sign, then
\* digits and nothing else
i64_from_str(s) ==
    IF s # <<>> /\ Head(s) \in {"+", "-"}
    THEN and_then(digits_value(Tail(s)),
                  LAMBDA n : Some(IF Head(s) = "-" THEN 0 - n ELSE n))
    ELSE digits_value(s)

\* where the first '.' of a text is (Len + 1 when it has none)
DotAt(s) ==
    IF \E i \in DOMAIN s : s[i] = "."
    THEN CHOOSE i \in DOMAIN s : s[i] = "." /\ \A j \in 1..(i - 1) : s[j] # "."
    ELSE Len(s) + 1

\* str::parse::<f64>() for texts without exponent: an optional sign, then inf,
\* infinity or nan in any case, or digits with at most one '.' and at least one
\* digit.  Some of the number read (its sign, integral digits and fractional
\* digits), of "inf" or of "nan"; None for Err
f64_from_str(s) ==
    LET signed == s # <<>> /\ Head(s) \in {"+", "-"}
        body == IF signed THEN Tail(s) ELSE s
        word == to_lowercase(body)
        integral == SubSeq(body, 1, DotAt(body) - 1)
        fraction == SubSeq(body, DotAt(body) + 1, Len(body))
    IN IF word \in {<<"i", "n", "f">>, <<"i", "n", "f", "i", "n", "i", "t", "y">>}
       THEN Some([class |-> "inf"])
       ELSE IF word = <<"n", "a", "n">> THEN Some([class |-> "nan"])
       ELSE IF /\ integral \o fraction # <<>>
               /\ \A i \in DOMAIN integral : IsDigit(integral[i])
               /\ \A i \in DOMAIN fraction : IsDigit(fraction[i])
       THEN Some([class |-> "finite", negative |-> signed /\ Head(s) = "-",
                  integral |-> integral, fraction |-> fraction])
       ELSE None

\* serde_json::Number::from_f64: None for a number that is not finite
from_f64(num) == IF num.class = "finite" THEN Some(num) ELSE None

InvalidValue(datatype, value) == [kind |-> "InvalidValue", datatype |-> datatype, value |-> value]

\* process_value, the Integer, Decimal and Boolean arms: [result, value, state],
\* result being Ok, Err or Panic (the unwrap() of from_f64 on None)
process_value_coerced(value, datatype, strict, state) ==
    LET cleaned_value == IF datatype = "Boolean" THEN to_lowercase(value)
                         ELSE replace_currency_chars(value)
        failed == IF strict
                  THEN [result |-> "Err", value |-> InvalidValue(datatype, value),
                        state |-> state]
                  ELSE [result |-> "Ok", value |-> JsonString(value),
                        state |-> AddWarning(state, InvalidValue(datatype, value))]
    IN CASE datatype = "Integer" ->
              IF i64_from_str(cleaned_value) # None
              THEN [result |-> "Ok", value |-> JsonNumber(unwrap(i64_from_str(cleaned_value))),
                    state |-> state]
              ELSE failed
         [] datatype = "Decimal" ->
              IF f64_from_str(cleaned_value) # None
              THEN IF from_f64(unwrap(f64_from_str(cleaned_value))) # None
                   THEN [result |-> "Ok",
                         value |-> JsonFloat(unwrap(f64_from_str(cleaned_value))),
                         state |-> state]
                   ELSE [result |-> "Panic", value |-> JsonString(value), state |-> state]
              ELSE [result |-> "Ok", value |-> JsonString(cleaned_value), state |-> state]
         [] datatype = "Boolean" ->
              IF cleaned_value \in {<<"t", "r", "u", "e">>, <<"f", "a", "l", "s", "e">>,
                                    <<"1">>, <<"0">>, <<"y", "e", "s">>, <<"n", "o">>}
              THEN [result |-> "Ok",
                    value |-> JsonBool(cleaned_value \in {<<"t", "r", "u", "e">>, <<"1">>,
                                                          <<"y", "e", "s">>}),
                    state |-> state]
              ELSE failed

\* the cells of the typed columns in the files of the model
CoerceTexts ==
    {<<"4", "2">>, <<"-", "7">>, <<"$", "1", ",", "2", "0", "0">>, <<"5", "0", "%">>,
     <<"1", ".", "5">>, <<"$", "1", ",", "2", "0", "0", ".", "5", "0">>, <<".", "5">>,
     <<"a", "b", "c">>, <<"$", "x">>, <<"n", "a", "n">>, <<"$">>,
     <<"T", "R", "U", "E">>, <<"f", "a", "l", "s", "e">>, <<"1">>, <<"0">>,
     <<"Y", "e", "s">>, <<"n", "o">>, <<"m", "a", "y", "b", "e">>, <<" ", "1">>}

CoerceDatatypes == {"Integer", "Decimal", "Boolean"}

InitCoerce ==
    /\ pc = "coerce"
    /\ is_strict \in BOOLEAN
    /\ is_namespace_iris = FALSE
    /\ instances = <<>>
    /\ rows = 0
    /\ last = NoRow
    /\ processing_state = NewState
    /\ IdleOutsideTable

\* process_simple_instance, one record of a basic step of class Order whose headers
\* are the identifier column and one typed column "amount": the cell is coerced, an
\* Err is recorded by the row loop (an error in strict mode, a warning otherwise)
\* and leaves final_values empty, and the row's instance is stored
CoerceRow ==
    /\ pc = "coerce" /\ rows < MaxCoerceRows
    /\ rows' = rows + 1
    /\ \E datatype \in CoerceDatatypes, text \in CoerceTexts :
          LET processed == process_value_coerced(text, datatype, is_strict, processing_state)
              final_values == IF processed.result = "Ok" THEN <<processed.value>> ELSE <<>>
              instance == [id |-> RowId("Order", "1"), type_ |-> <<IdString("Order")>>,
                           properties |-> [k \in {"amount"} |-> JsonArray(final_values)]]
          IN /\ last' = [kind |-> "coerce", datatype |-> datatype, text |-> text,
                         processed |-> processed, state_before |-> processing_state]
             /\ IF processed.result = "Panic"
                THEN /\ pc' = "panicked"
                     /\ UNCHANGED <<processing_state, instances>>
                ELSE /\ pc' = pc
                     /\ processing_state' =
                           IF processed.result = "Ok" THEN processed.state
                           ELSE Report(processed.state, is_strict, processed.value)
                     /\ \E table \in update_or_insert_instance(instances, instance) :
                           instances' = table
    /\ UNCHANGED <<is_strict, is_namespace_iris>>
    /\ UNCHANGED outsideTable

NextCoerce == CoerceRow

SpecCoerce == InitCoerce /\ [][NextCoerce]_vars

\* the texts of the model that are numerals once $ % , are taken out, and the
\* Boolean texts
IntegerTexts == {<<"4", "2">>, <<"-", "7">>, <<"$", "1", ",", "2", "0", "0">>,
                 <<"5", "0", "%">>, <<"1">>, <<"0">>}
DecimalTexts == IntegerTexts \cup {<<"1", ".", "5">>, <<".", "5">>,
                                   <<"$", "1", ",", "2", "0", "0", ".", "5", "0">>}
TrueTexts == {<<"T", "R", "U", "E">>, <<"1">>, <<"Y", "e", "s">>}
FalseTexts == {<<"f", "a", "l", "s", "e">>, <<"0">>, <<"n", "o">>}

\* the texts a datatype accepts
Accepted(datatype) ==
    CASE datatype = "Integer" -> IntegerTexts
      [] datatype = "Decimal" -> DecimalTexts
      [] datatype = "Boolean" -> TrueTexts \cup FalseTexts

\* a cell of the datatype was coerced as C22 says: an accepted text gives a number
\* or a Boolean and no message; any other text is an error in strict mode and in
\* lenient mode the raw string with a warning
CoercedAsClaimed(datatype) ==
    (last # NoRow /\ last.datatype = datatype) =>
        /\ pc # "panicked"
        /\ last.text \in Accepted(datatype) =>
              /\ last.processed.result = "Ok"
              /\ last.processed.value.kind = (IF datatype = "Boolean" THEN "Bool" ELSE "Number")
              /\ datatype = "Boolean" => last.processed.value.b = (last.text \in TrueTexts)
              /\ processing_state = last.state_before
        /\ (last.text \notin Accepted(datatype) /\ is_strict) =>
              /\ last.processed.result = "Err"
              /\ Len(processing_state.errors) = Len(last.state_before.errors) + 1
        /\ (last.text \notin Accepted(datatype) /\ ~is_strict) =>
              /\ last.processed.result = "Ok"
              /\ last.processed.value = JsonString(last.text)
              /\ Len(processing_state.warnings) = Len(last.state_before.warnings) + 1

\* C22: Integer and Decimal strip $ % , and then parse, Boolean accepts exactly the
\* texts true, false, 1, 0, yes, no in any case (true, 1, yes giving true); for each
\* of the three datatypes a value that fails to parse is an error in strict mode,
\* and in lenient mode is emitted as its raw string together with a warning
C22_NumberAndBooleanCoercion ==
    /\ CoercedAsClaimed("Integer")
    /\ CoercedAsClaimed("Decimal")
    /\ CoercedAsClaimed("Boolean")

\* what holds of the Integer and Boolean cells
C22_IntegerAndBoolean == CoercedAsClaimed("Integer") /\ CoercedAsClaimed("Boolean")

\* what holds of the Decimal cells: an accepted text gives a number
C22_DecimalAccepted ==
    (last # NoRow /\ last.datatype = "Decimal" /\ last.text \in DecimalTexts) =>
        /\ last.processed.result = "Ok"
        /\ last.processed.value.kind = "Number"
        /\ processing_state = last.state_before

-----------------------------------------------------------------------------
(* Manifest::validate on manifests of every shape: the @type of the manifest, the *)
(* Excel file, and steps with their source (path, sheet), their @type list and    *)
(* the fields a subclass step requires.                                           *)

MaxManifestSteps == 2

\* enum ModelStep and enum InstanceStep, every variant
ModelStepVariants ==
    {"BasicVocabularyStep", "SubClassVocabularyStep", "PropertiesVocabularyStep"}
InstanceStepVariants ==
    {"BasicInstanceStep", "PicklistStep", "SubClassInstanceStep", "PropertiesInstanceStep"}

\* StorageLocation::default(), the path of a step that names no path
DefaultPath == ""

\* where the steps of the manifests read from: a CSV file, or a sheet of the Excel
\* file with the path left at its default
StepSources ==
    {[path |-> "a.csv", sheet |-> None],
     [path |-> DefaultPath, sheet |-> Some("S1")],
     [path |-> DefaultPath, sheet |-> Some("S2")]}

\* the @type lists and subclass fields of the steps of a section: no step kind of
\* the section, one, a subclass step without and with its field, and two step kinds
StepKinds(section_type) ==
    LET basic == IF section_type = "model" THEN "BasicVocabularyStep" ELSE "BasicInstanceStep"
        subclass == IF section_type = "model" THEN "SubClassVocabularyStep"
                    ELSE "SubClassInstanceStep"
    IN {[types |-> <<"CSVImportStep">>, sub_class |-> None],
        [types |-> <<"CSVImportStep", basic>>, sub_class |-> None],
        [types |-> <<subclass>>, sub_class |-> None],
        [types |-> <<subclass>>, sub_class |-> Some("Parent")],
        [types |-> <<basic, subclass>>, sub_class |-> Some("Parent")]}

\* ImportStep: sub_class stands for subClassOf in a model step and for
\* subClassProperty in an instance step; ix is the step's position as loaded
ManifestSteps(section_type, raw) ==
    [i \in DOMAIN raw |->
        [path |-> raw[i][1].path, sheet |-> raw[i][1].sheet, types |-> raw[i][2].types,
         sub_class |-> raw[i][2].sub_class, ix |-> i]]

ManifestSequences(section_type) ==
    {ManifestSteps(section_type, raw) :
        raw \in SeqsUpTo(StepSources \X StepKinds(section_type), MaxManifestSteps)}

\* one well-formed step, for the section that is not varied
PlainStep(section_type) ==
    ManifestSteps(section_type,
                  <<<<[path |-> "a.csv", sheet |-> None],
                      [types |-> <<IF section_type = "model" THEN "BasicVocabularyStep"
                                   ELSE "BasicInstanceStep">>,
                       sub_class |-> None]>>>>)

ManifestTypes == {"CSVImportManifest", "ExcelImportManifest", "Manifest"}

InvalidManifest(message) == [kind |-> "InvalidManifest", message |-> message]

\* the steps of step.types that are step kinds of the section:
\* .filter(|t| matches!(t, StepType::ModelStep(_))) / StepType::InstanceStep(_)
StepTypesOf(section_type, step) ==
    SelectSeq(step.types,
              LAMBDA t : t \in (IF section_type = "model" THEN ModelStepVariants
                                ELSE InstanceStepVariants))

\* the body of `for step in &self.model.sequence` and of `for step in
\* &self.instances.sequence`: [result, state], result Panic when the indexing of an
\* empty Vec panics
ValidateStep(state, section_type, type_, step) ==
    LET step_types == StepTypesOf(section_type, step)
        s1 == IF section_type = "instance" /\ step_types = <<>>
              THEN AddError(state, InvalidManifest("must include InstanceStep type"))
              ELSE state
        s2 == IF step_types = <<>>
              THEN AddError(s1, InvalidManifest("no step type"))
              ELSE s1
        s3 == IF Len(step_types) > 1
              THEN AddError(s2, InvalidManifest("only one step type"))
              ELSE s2
    IN IF step_types = <<>> THEN [result |-> "Panic", state |-> s3]
       ELSE LET s4 == IF /\ step_types[1] \in {"SubClassVocabularyStep", "SubClassInstanceStep"}
                         /\ step.sub_class = None
                      THEN AddError(s3, InvalidManifest("subclass step requires its field"))
                      ELSE s3
                s5 == IF type_ = "ExcelImportManifest" /\ step.sheet = None
                      THEN AddError(s4, InvalidManifest("step missing sheet reference"))
                      ELSE s4
            IN [result |-> "Ok", state |-> s5]

\* the two loops over the steps of a section
RECURSIVE ValidateSteps(_, _, _, _, _)
ValidateSteps(state, section_type, type_, sequence, i) ==
    IF i > Len(sequence) THEN [result |-> "Ok", state |-> state]
    ELSE LET v == ValidateStep(state, section_type, type_, sequence[i])
         IN IF v.result = "Panic" THEN v
            ELSE ValidateSteps(v.state, section_type, type_, sequence, i + 1)

\* Manifest::validate: [result, state, model, instances] - Ok(state), Err(state) or
\* Panic, and the two sequences as the call leaves them
validate(m, strict) ==
    LET s1 == IF m.type_ \notin {"CSVImportManifest", "ExcelImportManifest"}
              THEN AddError(NewState, InvalidManifest("manifest type"))
              ELSE NewState
        s2 == IF m.type_ = "ExcelImportManifest" /\ m.excel_file = None
              THEN AddError(s1, InvalidManifest("excel_file"))
              ELSE s1
        model == handle_step_deduplication(m.model, "model", strict)
        instance == handle_step_deduplication(m.instances, "instance", strict)
        s3 == MergeState(MergeState(s2, model.state), instance.state)
        v1 == ValidateSteps(s3, "model", m.type_, model.sequence, 1)
        v2 == IF v1.result = "Panic" THEN v1
              ELSE ValidateSteps(v1.state, "instance", m.type_, instance.sequence, 1)
    IN [result |-> IF v2.result = "Panic" THEN "Panic"
                   ELSE IF StateIsOk(v2.state) THEN "Ok" ELSE "Err",
        state |-> v2.state, model |-> model.sequence, instances |-> instance.sequence]

\* the manifest as Manifest::from_file hands it over: one section takes every shape,
\* the other is empty or one well-formed step
InitManifest ==
    /\ pc = "loaded"
    /\ is_strict \in BOOLEAN
    /\ \E type_ \in ManifestTypes, excel_file \in {None, Some("book.xlsx")},
          section_type \in {"model", "instance"} :
          \E sequence \in ManifestSequences(section_type),
             other \in {<<>>, PlainStep(IF section_type = "model" THEN "instance" ELSE "model")} :
             loaded = [type_ |-> type_, excel_file |-> excel_file,
                       model |-> IF section_type = "model" THEN sequence ELSE other,
                       instances |-> IF section_type = "model" THEN other ELSE sequence]
    /\ manifest = loaded
    /\ processing_state = NewState
    /\ queue = <<>>
    /\ ran = <<>>
    /\ did_reorder_instance_sequence = FALSE
    /\ last = NoRow
    /\ is_namespace_iris = Idle /\ instances = Idle /\ rows = Idle
    /\ IdOptIdle /\ TermIdle /\ VocabIdle /\ OutcomeIdle

\* process_command: manifest.validate(strict), and the merge of an Ok state into the
\* state of the command line; an Err ends the command with the state as its error
ValidateManifest ==
    /\ pc = "loaded"
    /\ LET v == validate(manifest, is_strict)
       IN /\ last' = [kind |-> "validate", result |-> v.result, state |-> v.state]
          /\ pc' = CASE v.result = "Ok" -> "validated"
                     [] v.result = "Err" -> "invalid"
                     [] v.result = "Panic" -> "panicked"
          /\ manifest' = IF v.result = "Panic" THEN manifest
                         ELSE [manifest EXCEPT !.model = v.model, !.instances = v.instances]
          /\ processing_state' = IF v.result = "Ok"
                                 THEN MergeState(processing_state, v.state)
                                 ELSE processing_state
    /\ UNCHANGED <<is_strict, loaded, queue, ran, did_reorder_instance_sequence>>
    /\ UNCHANGED <<is_namespace_iris, instances, rows>>
    /\ UNCHANGED <<idoptVars, termVars, vocabVars, outcomeVars>>

NextManifest == ValidateManifest

SpecManifest == InitManifest /\ [][NextManifest]_vars

\* the steps Manifest::validate inspects: those its deduplication keeps
InspectedSteps ==
    LET model == deduplicate_steps(loaded.model).unique
        instance == deduplicate_steps(loaded.instances).unique
    IN {[section_type |-> "model", step |-> model[i]] : i \in DOMAIN model}
           \cup {[section_type |-> "instance", step |-> instance[i]] : i \in DOMAIN instance}

\* the contract violations of a loaded manifest that C25 names
WrongManifestType == loaded.type_ \notin {"CSVImportManifest", "ExcelImportManifest"}

AbsentStepKind == \E s \in InspectedSteps : StepTypesOf(s.section_type, s.step) = <<>>

AmbiguousStepKind == \E s \in InspectedSteps : Len(StepTypesOf(s.section_type, s.step)) > 1

SubClassLacksField ==
    \E s \in InspectedSteps :
        LET step_types == StepTypesOf(s.section_type, s.step)
        IN /\ step_types # <<>>
           /\ step_types[1] \in {"SubClassVocabularyStep", "SubClassInstanceStep"}
           /\ s.step.sub_class = None

Reported(message) ==
    /\ last.result = "Err"
    /\ \E i \in DOMAIN last.state.errors : last.state.errors[i] = InvalidManifest(message)

\* C25: Manifest::validate reports every structural contract violation as an
\* InvalidManifest error in the state it returns, without crashing - a manifest
\* @type other than CSVImportManifest / ExcelImportManifest, a step with no step
\* kind of its phase, a step with more than one, a subclass step lacking its
\* subClassOf / subClassProperty field - and it returns the success variant exactly
\* when the state holds no error
C25_ValidateReportsAndNeverCrashes ==
    pc # "loaded" =>
        /\ last.result # "Panic"
        /\ WrongManifestType => Reported("manifest type")
        /\ AbsentStepKind => Reported("no step type")
        /\ AmbiguousStepKind => Reported("only one step type")
        /\ SubClassLacksField => Reported("subclass step requires its field")
        /\ last.result = "Ok" <=> last.state.errors = <<>>

\* the same of the calls that return: they are the calls on manifests in which
\* every inspected step has a step kind of its phase
C25_WhereNoPanic ==
    (pc # "loaded" /\ last.result # "Panic") =>
        /\ ~AbsentStepKind
        /\ WrongManifestType => Reported("manifest type")
        /\ AmbiguousStepKind => Reported("only one step type")
        /\ SubClassLacksField => Reported("subclass step requires its field")
        /\ last.result = "Ok" <=> last.state.errors = <<>>

\* a step with no step kind of its phase ends the call in a panic, after its error
\* was added to a state that is never returned
C25_AbsentPanics ==
    pc # "loaded" => (AbsentStepKind <=> last.result = "Panic")

\* the source of a step: its path and its sheet
SourceOf(step) == [path |-> step.path, sheet |-> step.sheet]

\* the steps of a section whose source differs from the source of every earlier one
FirstOfSource(sequence) ==
    {i \in DOMAIN sequence :
        \A j \in 1..(i - 1) : SourceOf(sequence[j]) # SourceOf(sequence[i])}

KeepsFirstOfSource(sequence, kept) ==
    \A i \in FirstOfSource(sequence) : \E k \in DOMAIN kept : kept[k] = sequence[i]

\* C29: step deduplication never drops a step whose source differs from the source
\* of every earlier step of its section; two steps of an Excel manifest that name
\* different sheets and leave the path at its default are both kept
C29_DistinctSourcesKept ==
    pc \in {"validated", "invalid"} =>
        /\ KeepsFirstOfSource(loaded.model, manifest.model)
        /\ KeepsFirstOfSource(loaded.instances, manifest.instances)

\* what does hold: the first step of every path is kept
FirstOfPath(sequence) ==
    {i \in DOMAIN sequence : \A j \in 1..(i - 1) : sequence[j].path # sequence[i].path}

C29_DistinctPathsKept ==
    pc \in {"validated", "invalid"} =>
        /\ \A i \in FirstOfPath(loaded.model) :
              \E k \in DOMAIN manifest.model : manifest.model[k] = loaded.model[i]
        /\ \A i \in FirstOfPath(loaded.instances) :
              \E k \in DOMAIN manifest.instances : manifest.instances[k] = loaded.instances[i]

\* an Excel manifest with two steps on different sheets, validated
C29_TwoSheets ==
    /\ pc \in {"validated", "invalid"}
    /\ loaded.type_ = "ExcelImportManifest"
    /\ Len(loaded.instances) = 2
    /\ loaded.instances[1].sheet = Some("S1") /\ loaded.instances[2].sheet = Some("S2")
    /\ Len(manifest.instances) = 1

-----------------------------------------------------------------------------
(* VocabularyTerm::update_with on terms without a label.  A Properties vocabulary *)
(* step hands process_class_term a class name of None, so a class named on two    *)
(* rows is merged with both labels None.                                          *)

\* C27: VocabularyTerm::update_with completes for every pair of terms - it returns
\* Ok or a conflict error and never panics - in particular when neither the stored
\* term nor the incoming term has a label
C27_UpdateWithNeverPanics ==
    /\ term_out.ab.result \in {"NotRun", "Ok", "Err"}
    /\ term_out.ba.result \in {"NotRun", "Ok", "Err"}

\* the call panics exactly when the stored term has no label and the incoming term
\* has none either: other_entry.label.clone().unwrap() on None
C27_PanicsWithoutLabels ==
    term_out.ab.result # "NotRun" =>
        (term_out.ab.result = "Panic" <=> (term_self.label = None /\ term_other.label = None))

-----------------------------------------------------------------------------
(* Hash and PartialEq of IdOpt together.  hash(self) is what the impl feeds to    *)
(* the Hasher - the string of a String, the original_id of a ReplacementMap - so  *)
(* two ids hash alike exactly when these strings are equal.                       *)

\* C30: IdOpt's hash is consistent with its equality - any two IdOpt values that
\* compare equal have equal hashes
C30_EqualIdsHashAlike ==
    (pc = "compared" /\ id_eq.ab) => hash(id_a) = hash(id_b)

\* two String ids that compare equal hash alike
C30_EqualStringsHashAlike ==
    (pc = "compared" /\ id_eq.ab /\ id_a.tag = "String" /\ id_b.tag = "String")
        => hash(id_a) = hash(id_b)

\* a String equal to the replacement_id of a ReplacementMap compares equal to it
\* and hashes unlike it
C30_EqualButHashedApart ==
    /\ pc = "compared"
    /\ id_a.tag = "String" /\ id_b.tag = "ReplacementMap"
    /\ id_a.value = id_b.replacement_id /\ id_a.value # id_b.original_id
    /\ id_eq.ab /\ id_eq.ba
    /\ hash(id_a) # hash(id_b)

-----------------------------------------------------------------------------
(* validate_headers and the column-count check of the row loop.  A basic step of  *)
(* class Order: the identifier column is "id", the vocabulary gives the class one *)
(* String property "p", and the step ignores column "ig".                         *)

MaxHeaders == 3
MaxHeaderRows == 2

HeaderNames == {"", "id", "p", "zz", "ig"}

\* the header row of the CSV
CsvHeaderRows == SeqsUpTo(HeaderNames, MaxHeaders)

\* struct Header
Header(name, datatype) == [name |-> name, datatype |-> datatype, is_label_header |-> FALSE]

\* what get_valid_property_labels returns for class Order
ValidLabels == {Header("p", "String")}

\* self.ignore.get(class_type)
IgnorableHeaders == {"ig"}

\* the loop `for header in headers` of validate_headers from header i on:
\* [final_headers, unknown_headers, state]
RECURSIVE ValidateHeadersFrom(_, _, _, _)
ValidateHeadersFrom(headers, identifier_label, i, acc) ==
    IF i > Len(headers) THEN acc
    ELSE LET header == headers[i]
             final_header_candidate == {label \in ValidLabels : label.name = header}
             next ==
                 CASE header = "" ->
                        [acc EXCEPT !.state = AddWarning(@, [kind |-> "EmptyColumn"]),
                                    !.final_headers = Append(@, None)]
                   [] header # "" /\ header = identifier_label ->
                        [acc EXCEPT !.final_headers = Append(@, Some(Header(header, "ID")))]
                   [] OTHER ->
                        IF final_header_candidate = {} /\ header \notin IgnorableHeaders
                        THEN [acc EXCEPT !.unknown_headers = Append(@, header)]
                        ELSE IF final_header_candidate # {}
                        THEN [acc EXCEPT !.final_headers =
                                  Append(@, Some(CHOOSE label \in final_header_candidate : TRUE))]
                        ELSE [acc EXCEPT !.final_headers = Append(@, None)]
         IN ValidateHeadersFrom(headers, identifier_label, i + 1, next)

UnknownColumns(unknown_headers) == [kind |-> "UnknownColumns", headers |-> unknown_headers]

\* InstanceProcessor::validate_headers: [result, headers, state, error]
validate_headers(headers, identifier_label, strict, state) ==
    LET done == ValidateHeadersFrom(headers, identifier_label, 1,
                    [final_headers |-> <<>>, unknown_headers |-> <<>>, state |-> state])
    IN IF done.unknown_headers # <<>>
       THEN IF strict
            THEN [result |-> "Err", headers |-> <<>>, state |-> done.state,
                  error |-> UnknownColumns(done.unknown_headers)]
            ELSE [result |-> "Ok", headers |-> done.final_headers,
                  state |-> AddWarning(done.state, UnknownColumns(done.unknown_headers)),
                  error |-> None]
       ELSE [result |-> "Ok", headers |-> done.final_headers, state |-> done.state,
             error |-> None]

\* headers.iter().position(|h| h.as_ref().map(|h| h.name == *identifier_label)
\*     .unwrap_or(false)), as a set: empty for None
IdColumnIndex(headers, identifier_label) ==
    LET hits == {i \in DOMAIN headers :
                    headers[i] # None /\ unwrap(headers[i]).name = identifier_label}
    IN IF hits = {} THEN None
       ELSE Some(CHOOSE i \in hits : \A j \in hits : i <= j)

InitHeaders ==
    /\ pc = "open"
    /\ is_strict \in BOOLEAN
    /\ is_namespace_iris = FALSE
    /\ instances = <<>>
    /\ rows = 0
    /\ \E csv_headers \in CsvHeaderRows : last = [kind |-> "csv", csv_headers |-> csv_headers]
    /\ processing_state = NewState
    /\ IdleOutsideTable

\* process_simple_instance up to its row loop: validate_headers, then the position
\* of the identifier column; an Err ends the step, and Processor::process_instance_step
\* records it as an error (strict) or a warning
ValidateHeaders ==
    /\ pc = "open"
    /\ LET v == validate_headers(last.csv_headers, "id", is_strict, processing_state)
           id_column_index == IdColumnIndex(v.headers, "id")
       IN IF v.result = "Err"
          THEN /\ pc' = "failed"
               /\ processing_state' = Report(v.state, is_strict, v.error)
               /\ last' = [kind |-> "failed", csv_headers |-> last.csv_headers]
          ELSE IF id_column_index = None
          THEN /\ pc' = "failed"
               /\ processing_state' =
                     Report(v.state, is_strict, [kind |-> "IdentifierColumnNotFound"])
               /\ last' = [kind |-> "failed", csv_headers |-> last.csv_headers]
          ELSE /\ pc' = "records"
               /\ processing_state' = v.state
               /\ last' = [kind |-> "headers", csv_headers |-> last.csv_headers,
                           headers |-> v.headers,
                           id_column_index |-> unwrap(id_column_index)]
    /\ UNCHANGED <<is_strict, is_namespace_iris, instances, rows>>
    /\ UNCHANGED outsideTable

\* the properties of one record: for (i, header) in headers.iter().enumerate()
RecordProperties(headers, record) ==
    LET used == {i \in DOMAIN headers :
                    /\ headers[i] # None
                    /\ i \in DOMAIN record
                    /\ record[i] # ""
                    /\ unwrap(headers[i]).datatype # "ID"}
        names == {unwrap(headers[i]).name : i \in used}
    IN [name \in names |->
           LET i == CHOOSE k \in used :
                       /\ unwrap(headers[k]).name = name
                       /\ \A j \in used : unwrap(headers[j]).name = name => j <= k
           IN JsonArray(<<JsonString(record[i])>>)]

\* one record of the row loop of process_simple_instance; the csv reader hands over
\* only records with as many fields as the CSV has headers
HeaderRow ==
    /\ pc = "records" /\ rows < MaxHeaderRows
    /\ rows' = rows + 1
    /\ \E record \in [DOMAIN last.csv_headers -> {"", "x"}] :
          LET headers == last.headers
              id == IF last.id_column_index \in DOMAIN record
                    THEN record[last.id_column_index] ELSE ""
              done(outcome) == [kind |-> "record", csv_headers |-> last.csv_headers,
                                headers |-> headers,
                                id_column_index |-> last.id_column_index,
                                record |-> record, outcome |-> outcome]
          IN IF id = ""
             THEN /\ processing_state' =
                        Report(processing_state, is_strict, [kind |-> "MissingIdentifier"])
                  /\ last' = done("missing identifier")
                  /\ UNCHANGED instances
             ELSE IF Len(headers) # Len(record)
             THEN /\ processing_state' =
                        Report(processing_state, is_strict,
                               [kind |-> "ColumnCount", record |-> Len(record),
                                headers |-> Len(headers)])
                  /\ last' = done("column count")
                  /\ UNCHANGED instances
             ELSE /\ \E table \in update_or_insert_instance(instances,
                          [id |-> RowId("Order", id), type_ |-> <<IdString("Order")>>,
                           properties |-> RecordProperties(headers, record)]) :
                        instances' = table
                  /\ last' = done("stored")
                  /\ UNCHANGED processing_state
    /\ UNCHANGED <<pc, is_strict, is_namespace_iris>>
    /\ UNCHANGED outsideTable

NextHeaders == ValidateHeaders \/ HeaderRow

SpecHeaders == InitHeaders /\ [][NextHeaders]_vars

\* entry i of the validated headers describes column i of the CSV
Aligned(csv_headers, headers) ==
    /\ Len(headers) = Len(csv_headers)
    /\ \A i \in DOMAIN headers :
          headers[i] # None => unwrap(headers[i]).name = csv_headers[i]

\* C28: validate_headers returns exactly one entry per CSV header, position-aligned
\* with the input headers (None for an ignored or empty column), in lenient mode as
\* in strict mode, so that a record with as many fields as the CSV has headers
\* passes the column-count check - also when the CSV holds an unrecognized column
\* that is not ignored
C28_HeadersAlignedWithColumns ==
    pc = "records" =>
        /\ Aligned(last.csv_headers, last.headers)
        /\ last.kind = "record" => last.outcome # "column count"

\* the same of the CSVs without an unrecognized column, and of strict runs
C28_WhereAllColumnsKnown ==
    (/\ pc = "records"
     /\ is_strict \/ \A i \in DOMAIN last.csv_headers :
                        last.csv_headers[i] \in {"", "id", "p", "ig"})
        => /\ Aligned(last.csv_headers, last.headers)
           /\ last.kind = "record" => last.outcome # "column count"

\* a lenient run whose CSV has an unrecognized column: every full-width record with
\* an identifier is dropped by the column-count check
C28_UnknownColumnDropsRecords ==
    (/\ pc = "records" /\ last.kind = "record"
     /\ \E i \in DOMAIN last.csv_headers : last.csv_headers[i] = "zz")
        => last.outcome \in {"column count", "missing identifier"}

-----------------------------------------------------------------------------
(* The way of a diagnostic through the pipeline.  Four objects hold a             *)
(* ProcessingState: the Processor (processing_state), the VocabularyProcessor,    *)
(* the InstanceProcessor, and the MappingConfig a model step builds for its CSV.  *)
(* ran is the history of every diagnostic in the order it was recorded; last      *)
(* holds the states of the two builders.  Every instance step is a basic step,    *)
(* which the sort leaves in place without a warning.                              *)

MaxDiagSteps == 2
MaxDiagRows == 2

\* the n-th diagnostic of a run, recorded by one of the objects
Diagnostic(by, n) == [kind |-> "Processing", by |-> by, n |-> n]

\* what a row of a model CSV can do: nothing, leave an issue in the
\* VocabularyProcessor's state, or lack its property value
ModelRowEvents == {"ok", "issue", "missing property"}

\* what a part of an instance step can do: nothing, add a warning to the
\* InstanceProcessor's state, or leave an issue in it
InstanceRowEvents == {"ok", "warning", "issue"}

\* process_vocabulary's row loop from row i on: acc is [processor, mapping, ran],
\* the states of the VocabularyProcessor and of the step's MappingConfig.  A missing
\* property value is the Err of extract_values in strict mode, and in lenient
\* mode a warning in the MappingConfig's own state
RECURSIVE VocabularyRows(_, _, _, _)
VocabularyRows(events, strict, i, acc) ==
    IF i > Len(events) THEN acc
    ELSE LET n == Len(acc.ran) + 1
             next ==
                 CASE events[i] = "ok" -> acc
                   [] events[i] = "issue" ->
                        [acc EXCEPT !.processor = Report(@, strict, Diagnostic("vocabulary", n)),
                                    !.ran = Append(@, Diagnostic("vocabulary", n))]
                   [] events[i] = "missing property" ->
                        IF strict
                        THEN [acc EXCEPT
                                 !.processor = AddError(@, Diagnostic("vocabulary", n)),
                                 !.ran = Append(@, Diagnostic("vocabulary", n))]
                        ELSE [acc EXCEPT
                                 !.mapping = AddWarning(@, Diagnostic("mapping", n)),
                                 !.ran = Append(@, Diagnostic("mapping", n))]
         IN VocabularyRows(events, strict, i + 1, next)

\* VocabularyProcessor::process_vocabulary: [result, state or error, processor, ran].
\* An early Err leaves the processor's state where it is; the Ok at the end takes it.
\* The MappingConfig is a local of the call and is dropped with what it holds
process_vocabulary(processor, strict, early, events, history) ==
    IF early
    THEN [result |-> "Err", error |-> Diagnostic("vocabulary", Len(history) + 1),
          processor |-> processor,
          ran |-> Append(history, Diagnostic("vocabulary", Len(history) + 1))]
    ELSE LET done == VocabularyRows(events, strict, 1,
                         [processor |-> processor, mapping |-> NewState, ran |-> history])
         IN [result |-> "Ok", state |-> done.processor, processor |-> NewState,
             ran |-> done.ran]

\* the parts of an instance step from part i on: acc is [processor, ran]
RECURSIVE InstanceRows(_, _, _, _)
InstanceRows(events, strict, i, acc) ==
    IF i > Len(events) THEN acc
    ELSE LET n == Len(acc.ran) + 1
             next ==
                 CASE events[i] = "ok" -> acc
                   [] events[i] = "warning" ->
                        [acc EXCEPT !.processor = AddWarning(@, Diagnostic("instance", n)),
                                    !.ran = Append(@, Diagnostic("instance", n))]
                   [] events[i] = "issue" ->
                        [acc EXCEPT !.processor = Report(@, strict, Diagnostic("instance", n)),
                                    !.ran = Append(@, Diagnostic("instance", n))]
         IN InstanceRows(events, strict, i + 1, next)

\* InstanceProcessor::process_simple_instance: the events happen, then the step
\* returns early with an Err, its state staying in the processor, or ends with
\* Ok(take(&mut self.processing_state))
process_simple_instance(processor, strict, early, events, history) ==
    LET done == InstanceRows(events, strict, 1, [processor |-> processor, ran |-> history])
    IN IF early
       THEN [result |-> "Err", error |-> Diagnostic("instance", Len(done.ran) + 1),
             processor |-> done.processor,
             ran |-> Append(done.ran, Diagnostic("instance", Len(done.ran) + 1))]
       ELSE [result |-> "Ok", state |-> done.processor, processor |-> NewState,
             ran |-> done.ran]

\* match result { Ok(state) => merge(state), Err(e) => add_error_from / add_warning_from }
AfterBuilder(state, strict, r) ==
    IF r.result = "Ok" THEN MergeState(state, r.state) ELSE Report(state, strict, r.error)

InitDiag ==
    /\ pc = "model"
    /\ is_strict \in BOOLEAN
    /\ loaded \in [model : 0..MaxDiagSteps, instances : 0..MaxDiagSteps]
    /\ manifest = loaded
    /\ queue = loaded.model
    /\ ran = <<>>
    /\ did_reorder_instance_sequence = FALSE
    /\ processing_state = NewState
    /\ last = [vocabulary_processor |-> NewState, instance_processor |-> NewState]
    /\ is_namespace_iris = Idle /\ instances = Idle /\ rows = Idle
    /\ processed_state = Idle /\ proto_outcome = Idle /\ final_outcome = Idle
    /\ processing_outcome = Idle
    /\ IdOptIdle /\ TermIdle /\ VocabIdle

outsideDiag ==
    <<is_strict, loaded, manifest, did_reorder_instance_sequence, is_namespace_iris,
      instances, rows, processed_state, proto_outcome, final_outcome, idoptVars,
      termVars, vocabVars>>

\* one turn of `for step in model_sequence.drain(..)`: process_model_step
DiagModelStep ==
    /\ pc = "model" /\ queue > 0
    /\ \E early \in BOOLEAN, events \in SeqsUpTo(ModelRowEvents, MaxDiagRows) :
          LET r == process_vocabulary(last.vocabulary_processor, is_strict, early,
                                      events, ran)
          IN /\ processing_state' = AfterBuilder(processing_state, is_strict, r)
             /\ last' = [last EXCEPT !.vocabulary_processor = r.processor]
             /\ ran' = r.ran
    /\ queue' = queue - 1
    /\ UNCHANGED <<pc, processing_outcome>>
    /\ UNCHANGED outsideDiag

\* after the model loop: take_vocabulary and the merge of the state it returns
DiagTakeVocabulary ==
    /\ pc = "model" /\ queue = 0
    /\ processing_state' = MergeState(processing_state, last.vocabulary_processor)
    /\ last' = [last EXCEPT !.vocabulary_processor = NewState]
    /\ pc' = "instances"
    /\ queue' = loaded.instances
    /\ UNCHANGED <<ran, processing_outcome>>
    /\ UNCHANGED outsideDiag

\* one turn of `for step in instance_sequence`: process_instance_step
DiagInstanceStep ==
    /\ pc = "instances" /\ queue > 0
    /\ \E early \in BOOLEAN, events \in SeqsUpTo(InstanceRowEvents, MaxDiagRows) :
          LET r == process_simple_instance(last.instance_processor, is_strict, early,
                                           events, ran)
          IN /\ processing_state' = AfterBuilder(processing_state, is_strict, r)
             /\ last' = [last EXCEPT !.instance_processor = r.processor]
             /\ ran' = r.ran
    /\ queue' = queue - 1
    /\ UNCHANGED <<pc, processing_outcome>>
    /\ UNCHANGED outsideDiag

\* after the instance loop: the InstanceManager's take_vocabulary, the merge of its
\* state, and ProcessingOutcome::from_state(take(&mut self.processing_state))
DiagFinish ==
    /\ pc = "instances" /\ queue = 0
    /\ processing_outcome' =
          from_state(MergeState(processing_state, last.instance_processor))
    /\ processing_state' = NewState
    /\ last' = [last EXCEPT !.instance_processor = NewState]
    /\ pc' = "done"
    /\ UNCHANGED <<queue, ran>>
    /\ UNCHANGED outsideDiag

NextDiag == DiagModelStep \/ DiagTakeVocabulary \/ DiagInstanceStep \/ DiagFinish

SpecDiag == InitDiag /\ [][NextDiag]_vars

\* how often a message occurs in the outcome
Occurrences(outcome, m) ==
    LET messages == take_messages(outcome)
    IN Cardinality({i \in DOMAIN messages.errors : messages.errors[i] = m})
           + Cardinality({i \in DOMAIN messages.warnings : messages.warnings[i] = m})

\* C26: no diagnostic is lost on the way up - every warning or error recorded while
\* a step runs, by the vocabulary builder, by its column mapping or by the instance
\* builder, also before an early return of the step, appears exactly once in the
\* outcome Processor::process returns
C26_EveryDiagnosticOnceInOutcome ==
    pc = "done" =>
        \A i \in DOMAIN ran : Occurrences(processing_outcome, ran[i]) = 1

\* the same of the diagnostics of the two builders
C26_BuilderDiagnosticsOnce ==
    pc = "done" =>
        \A i \in DOMAIN ran :
            ran[i].by \in {"vocabulary", "instance"}
                => Occurrences(processing_outcome, ran[i]) = 1

\* a warning of a column mapping never reaches the outcome
C26_MappingDiagnosticsLost ==
    pc = "done" =>
        \A i \in DOMAIN ran :
            ran[i].by = "mapping" => Occurrences(processing_outcome, ran[i]) = 0

\* a lenient run in which a model row lacked its property value has ended
C26_MappingWarningRecorded ==
    /\ pc = "done"
    /\ \E i \in DOMAIN ran : ran[i].by = "mapping"

=============================================================================
